---- MODULE Spec2Model ----
(***************************************************************************)
(* A model of github.com/mashiike/awstee: the duplicating reader           *)
(* (AWSTeeReader), the scoped writer (backgroundWriter), the object writer *)
(* (s3Writer) and the batching log writer (cloudwatchLogsWriter).          *)
(*                                                                         *)
(* Eleven specifications share the module:                                  *)
(*   SpecTee  AWSTeeReader over a list of backgroundWriters                *)
(*   SpecLog  one cloudwatchLogsWriter, its two tasks and the log service  *)
(*   SpecS3   construction and life of one s3Writer                        *)
(*   SpecCfg  Config.Restrict on a loaded configuration                    *)
(*   SpecNew  newBackgroundWriter with any worker function, and the writer *)
(*   SpecErr  one cloudwatchLogsWriter whose append calls all fail         *)
(*   SpecBatch one cloudwatchLogsWriter with any accepted cfg.BufferLines   *)
(*   SpecSetup AWSTee.TeeReader: the construction of the destinations       *)
(*   SpecName the log stream name newCloudWatchLogsWriter resolves         *)
(*   SpecPrep construction of a cloudwatchLogsWriter, and one line written *)
(*   SpecE2E  AWSTeeReader over an s3Writer and a cloudwatchLogsWriter     *)
(***************************************************************************)
EXTENDS Integers, Sequences, FiniteSets, TLC

(* ------------------------------ bounds -------------------------------- *)

\* number of writers configured on the AWSTeeReader
NWriters == 2
\* longest source stream of the AWSTeeReader
MaxSrc == 2
\* largest read buffer p handed to AWSTeeReader.Read
MaxChunk == 2
\* how many times the caller calls AWSTeeReader.Close
MaxCloses == 2
\* how many asynchronous failures the workers of SpecTee report in one run
MaxFails == 2

\* most bytes written to the cloudwatchLogsWriter before it is closed
MaxInput == 4
\* largest cfg.BufferLines
MaxBufferLines == 2
\* how many PutLogEvents calls fail in one run
MaxPutFails == 1

\* longest cfg.urlPrefix.Path
MaxPath == 3
\* longest outputName
MaxName == 2
\* most bytes written to the s3Writer before it is closed
MaxS3Input == 2
\* how many streams besides the target DescribeLogStreams returns
MaxOtherStreams == 1
\* longest outputName handed to newCloudWatchLogsWriter
MaxOutputName == 4
\* longest url_prefix, in symbols
MaxUrl == 3
\* how many lines the caller writes to a log service that refuses every call
MaxRefused == 12

(* ------------------------- program constants -------------------------- *)

\* capacity of backgroundWriter.errCh: make(chan error, 10)
ErrChCap == 10
\* cfg.BufferLines when none is configured
DefaultBufferLines == 50
\* cfg.flushInterval when none is configured: 5 * time.Second, in milliseconds
DefaultFlushInterval == 5000

(* ------------------------------ values -------------------------------- *)

NL == "\n"
CR == "\r"

\* the nil error
Nil == [kind |-> "nil", w |-> 0]
\* io.EOF
EOF == [kind |-> "EOF", w |-> 0]
\* io.ErrClosedPipe, returned by a write on a pipe whose reader or writer is closed
ErrClosedPipe(i) == [kind |-> "ErrClosedPipe", w |-> i]
\* an error a worker sends on its error channel
WorkerErr(i) == [kind |-> "worker", w |-> i]

\* an error PutLogEvents returned on its n-th call
PutErr(n) == [kind |-> "put", w |-> n]
\* an absent sequence token (a nil *string)
NoToken == 0

Writers == 1..NWriters
TeeBytes == {"a", NL}
CwBytes == {"a", "b", CR, NL}

RECURSIVE SeqsUpTo(_, _)
SeqsUpTo(S, n) ==
    IF n = 0 THEN {<<>>}
    ELSE LET shorter == SeqsUpTo(S, n - 1)
         IN shorter \cup {Append(s, x) : s \in {t \in shorter : Len(t) = n - 1}, x \in S}

Min(a, b) == IF a < b THEN a ELSE b

\* strings.TrimLeft(s, "/")
RECURSIVE TrimLeftSlash(_)
TrimLeftSlash(s) ==
    IF s # <<>> /\ s[1] = "/" THEN TrimLeftSlash(Tail(s)) ELSE s

(* ----------------------------- variables ------------------------------ *)

VARIABLES
    \* AWSTeeReader
    source,      \* the bytes of the underlying reader r
    rpos,        \* how many of them r has returned
    consumed,    \* the bytes Read has returned to the consumer
    isClosed,    \* AWSTeeReader.isClosed
    tpc,         \* "idle", or "closing" while Close waits in eg.Wait(); in
                 \* AWSTee.TeeReader "new", then "failed" if it returned an error
    closeDone,   \* per writer: its Close of the running AWSTeeReader.Close returned
    closeRes,    \* per writer: what that Close returned
    egErr,       \* errgroup's first error
    closeRet,    \* what the last AWSTeeReader.Close returned
    teeCloses,   \* number of AWSTeeReader.Close calls that returned
    lastRead,    \* the last Read: its result and whether isClosed was set when called
    readFailed,  \* some Read returned an error other than io.EOF
    sawEOF,      \* a Read of the open reader returned io.EOF
    \* backgroundWriter i and its worker
    given,       \* bytes the pipe of writer i accepted (its worker read them)
    errCh,       \* errors buffered on writer i's error channel
    worker,      \* "running", or "exited" (errCh closed, pipe reader closed)
    pwClosed,    \* the pipe writer of writer i is closed
    closeCalls,  \* number of Close calls made on writer i
    writeCalls,  \* number of Write calls made on writer i
    fails,       \* asynchronous failures reported so far
    everFailed,  \* the writers whose worker has reported a failure
    \* cloudwatchLogsWriter: configuration and caller
    bufferLines,   \* cfg.BufferLines
    initToken,     \* the token prepareCloudwatchLogs returned
    ppc,           \* the caller: "idle", "write", "close_nl", "close_wait", "closed"
    written,       \* the bytes handed to Write so far
    returned,      \* the non-nil errors Write and Close returned, in order
    \* its backgroundWriter
    pipe,          \* bytes of the blocked pw.Write the reader has not read yet
    cwPwClosed,    \* pw is closed
    cancelled,     \* the worker's context is cancelled
    cwErrCh,       \* errors buffered on errCh
    cwWorker,      \* "running", or "exited" (errCh closed, pr closed)
    \* line-splitting task
    sbuf,          \* the scanner's buffered, unscanned bytes
    spc,           \* "scan", "send" (blocked in lines <- event), "done" (lines closed)
    cur,           \* the message of the event being sent
    \* batching/flush task
    fpc,           \* "select", "put", "send_err" (at c <- err), "wait", "exit", "panic"
    events,        \* the batch
    sequenceToken, \* the token for the next PutLogEvents
    calls,         \* the PutLogEvents calls made, in order, with their responses
    putFails,      \* number of failed PutLogEvents calls
    \* newCloudWatchLogsWriter and prepareCloudwatchLogs
    createLogGroup, \* cfg.CreateLogGroup
    describeResp,   \* what DescribeLogStreams answered
    prepCalls,      \* the client calls prepareCloudwatchLogs made, in order
    prepErr,        \* the error newCloudWatchLogsWriter returned
    logStream,      \* the log stream name newCloudWatchLogsWriter resolved
    \* s3Writer: configuration, bucket and caller
    urlPrefixPath,  \* cfg.urlPrefix.Path
    outputName,     \* the outputName argument of newS3Writer
    allowOverwrite, \* cfg.AllowOverwrite
    objects,        \* the keys of the objects in the bucket
    s3pc,           \* "new", "open" (newS3Writer returned a writer), "failed", "closed";
                    \* in newBackgroundWriter also "poll" and "closing"
    s3err,          \* the error newS3Writer returned
    headResp,       \* what HeadObject answered to the probe of newS3Writer
    key,            \* s3Writer.key
    tasks,          \* number of goroutines newBackgroundWriter started
    uploads,        \* the uploader.Upload calls made, in order
    s3bw,           \* its backgroundWriter: [given, errCh, worker, pwClosed]
    s3written,      \* the bytes handed to Write so far
    s3returned,     \* the non-nil errors Write and Close returned, in order
    \* Config
    cfg             \* the loaded configuration, what Restrict made of it and returned

teeVars == <<source, rpos, consumed, isClosed, tpc, closeDone, closeRes, egErr,
             closeRet, teeCloses, lastRead, readFailed, sawEOF>>
bwVars == <<given, errCh, worker, pwClosed, closeCalls, writeCalls, fails, everFailed>>
cwVars == <<bufferLines, initToken, ppc, written, returned, pipe, cwPwClosed, cancelled,
            cwErrCh, cwWorker, sbuf, spc, cur, fpc, events, sequenceToken,
            calls, putFails>>
s3Vars == <<urlPrefixPath, outputName, allowOverwrite, objects, s3pc, s3err, headResp,
            key, tasks, uploads, s3bw, s3written, s3returned>>
prepVars == <<createLogGroup, describeResp, prepCalls, prepErr, logStream>>
vars == <<teeVars, bwVars, cwVars, s3Vars, prepVars, cfg>>
\* what the AWSTeeReader over backgroundWriters, the running cloudwatchLogsWriter
\* and the s3Writer, each on its own, leave alone
notTeeVars == <<cwVars, s3Vars, prepVars, cfg>>
notLogVars == <<teeVars, bwVars, s3Vars, prepVars, cfg>>
notS3Vars == <<teeVars, bwVars, cwVars, prepVars, cfg>>

(* ======================= backgroundWriter ============================= *)

\* func (w *backgroundWriter) Err(): a receive on errCh bounded by 5ms. A buffered
\* error is received (also from a closed channel); otherwise nil.
Err(ch) == IF ch # <<>> THEN Head(ch) ELSE Nil
ErrRest(ch) == IF ch # <<>> THEN Tail(ch) ELSE ch

\* func (w *backgroundWriter) Write(p): pw.Write(p), then Err(). st is the state
\* of the writer, [given, errCh, worker, pwClosed]; the result is the new state
\* and the returned error. pw.Write fails once either end of the pipe is closed.
bwWrite(i, st, p) ==
    IF st.worker = "exited" \/ st.pwClosed
    THEN [st |-> st, err |-> ErrClosedPipe(i)]
    ELSE [st |-> [st EXCEPT !.given = st.given \o p, !.errCh = ErrRest(st.errCh)],
          err |-> Err(st.errCh)]

WriterState(i) ==
    [given |-> given[i], errCh |-> errCh[i], worker |-> worker[i], pwClosed |-> pwClosed[i]]

\* The worker of writer i reports a failure and keeps running: c <- err.
\* A worker has read input before it can fail (the upload and the append both
\* start from bytes read from the pipe).
WorkerReport(i) ==
    /\ worker[i] = "running"
    /\ given[i] # <<>>
    /\ fails < MaxFails
    /\ Len(errCh[i]) < ErrChCap
    /\ errCh' = [errCh EXCEPT ![i] = Append(@, WorkerErr(i))]
    /\ fails' = fails + 1
    /\ everFailed' = everFailed \cup {i}
    /\ UNCHANGED <<teeVars, given, worker, pwClosed, closeCalls, writeCalls>>
    /\ UNCHANGED notTeeVars

\* The worker of writer i fails and returns (uploader.Upload returned an error):
\* c <- err, then close(w.errCh) and pr.Close() in newBackgroundWriter's goroutine.
WorkerAbort(i) ==
    /\ worker[i] = "running"
    /\ given[i] # <<>>
    /\ fails < MaxFails
    /\ Len(errCh[i]) < ErrChCap
    /\ errCh' = [errCh EXCEPT ![i] = Append(@, WorkerErr(i))]
    /\ worker' = [worker EXCEPT ![i] = "exited"]
    /\ fails' = fails + 1
    /\ everFailed' = everFailed \cup {i}
    /\ UNCHANGED <<teeVars, given, pwClosed, closeCalls, writeCalls>>
    /\ UNCHANGED notTeeVars

\* func (w *backgroundWriter) Close(): pw.Close() (always nil), cancel(),
\* wg.Wait() -- the worker reads end-of-input and returns, having failed or not --
\* then Err(). The result is the new state and the returned error.
bwClose(i, st, workerFails) ==
    LET ch == IF st.worker = "running" /\ workerFails
              THEN Append(st.errCh, WorkerErr(i)) ELSE st.errCh
    IN [st |-> [st EXCEPT !.errCh = ErrRest(ch), !.worker = "exited", !.pwClosed = TRUE],
        err |-> Err(ch)]

(* ========================== AWSTeeReader ============================== *)

\* io.MultiWriter(writers...).Write(p): the writers in order, stopping at the first
\* error. sts is the sequence of writer states; the result is the new states, the
\* error and the number of writers whose Write was called.
\* A MultiWriter that forwards to its first writer only.
MultiWriteFirstOnly(i, sts, p) ==
    LET r == bwWrite(1, sts[1], p)
    IN [sts |-> [sts EXCEPT ![1] = r.st], err |-> r.err, called |-> 1]

RECURSIVE MultiWrite(_, _, _)
MultiWrite(i, sts, p) ==
    IF i > Len(sts) THEN [sts |-> sts, err |-> Nil, called |-> Len(sts)]
    ELSE LET r == bwWrite(i, sts[i], p)
             sts2 == [sts EXCEPT ![i] = r.st]
         IN IF r.err # Nil THEN [sts |-> sts2, err |-> r.err, called |-> i]
            ELSE MultiWrite(i + 1, sts2, p)

\* A Read that does not look at isClosed.
ReadResultUnguarded(closed, n) ==
    LET sts == [i \in Writers |-> WriterState(i)]
    IN IF rpos = Len(source)
       THEN [n |-> 0, err |-> EOF, sts |-> sts, fwd |-> 0]
       ELSE LET w == MultiWrite(1, sts, SubSeq(source, rpos + 1, rpos + n))
            IN [n |-> n, err |-> w.err, sts |-> w.sts, fwd |-> w.called]

\* func (t *AWSTeeReader) Read(p), as a function of isClosed and of the number n of
\* bytes the source returns: io.EOF once isClosed, else io.TeeReader's Read: n bytes
\* from the source, forwarded to the MultiWriter before Read returns; a write error
\* is returned with n. fwd is the number of writers whose Write was called.
ReadResult(closed, n) ==
    LET sts == [i \in Writers |-> WriterState(i)]
    IN IF closed
       THEN [n |-> 0, err |-> EOF, sts |-> sts, fwd |-> 0]
       ELSE IF rpos = Len(source)
       THEN [n |-> 0, err |-> EOF, sts |-> sts, fwd |-> 0]
       ELSE LET w == MultiWrite(1, sts, SubSeq(source, rpos + 1, rpos + n))
            IN [n |-> n, err |-> w.err, sts |-> w.sts, fwd |-> w.called]

\* One call of Read with a buffer of plen bytes.
Read(plen) ==
    /\ tpc = "idle"
    /\ \E n \in 1..plen :
         /\ n <= Len(source) - rpos \/ n = 1
         /\ LET r == ReadResult(isClosed, n)
            IN /\ rpos' = rpos + r.n
               /\ consumed' = consumed \o SubSeq(source, rpos + 1, rpos + r.n)
               /\ given' = [i \in Writers |-> r.sts[i].given]
               /\ errCh' = [i \in Writers |-> r.sts[i].errCh]
               /\ writeCalls' = [i \in Writers |->
                                   IF i <= r.fwd THEN writeCalls[i] + 1 ELSE writeCalls[i]]
               /\ lastRead' = [n |-> r.n, err |-> r.err, afterClose |-> isClosed,
                               fwd |-> r.fwd]
               /\ readFailed' = (readFailed \/ r.err \notin {Nil, EOF})
               /\ sawEOF' = (sawEOF \/ (~isClosed /\ r.err = EOF))
    /\ UNCHANGED <<source, isClosed, tpc, closeDone, closeRes, egErr, closeRet, teeCloses,
                   worker, pwClosed, closeCalls, fails, everFailed>>
    /\ UNCHANGED notTeeVars

\* func (t *AWSTeeReader) Close(), first part: eg.Go(w.Close) for every writer.
\* There is no isClosed check: a closed reader is closed again.
CloseStart ==
    /\ tpc = "idle"
    /\ teeCloses < MaxCloses
    /\ tpc' = "closing"
    /\ closeDone' = [i \in Writers |-> FALSE]
    /\ closeRes' = [i \in Writers |-> Nil]
    /\ egErr' = Nil
    /\ UNCHANGED <<source, rpos, consumed, isClosed, closeRet, teeCloses, lastRead,
                   readFailed, sawEOF, bwVars>>
    /\ UNCHANGED notTeeVars

\* One goroutine of the errgroup: w.Close() of writer i; errgroup keeps the first
\* non-nil error returned.
CloseWriter(i) ==
    /\ tpc = "closing"
    /\ ~closeDone[i]
    /\ \E workerFails \in BOOLEAN :
         /\ workerFails =>
              worker[i] = "running" /\ fails < MaxFails /\ Len(errCh[i]) < ErrChCap
         /\ fails' = IF workerFails THEN fails + 1 ELSE fails
         /\ everFailed' = IF workerFails THEN everFailed \cup {i} ELSE everFailed
         /\ LET r == bwClose(i, WriterState(i), workerFails)
            IN /\ errCh' = [errCh EXCEPT ![i] = r.st.errCh]
               /\ worker' = [worker EXCEPT ![i] = r.st.worker]
               /\ pwClosed' = [pwClosed EXCEPT ![i] = r.st.pwClosed]
               /\ closeRes' = [closeRes EXCEPT ![i] = r.err]
               /\ egErr' = IF egErr = Nil THEN r.err ELSE egErr
    /\ closeDone' = [closeDone EXCEPT ![i] = TRUE]
    /\ closeCalls' = [closeCalls EXCEPT ![i] = @ + 1]
    /\ UNCHANGED <<source, rpos, consumed, isClosed, tpc, closeRet, teeCloses, lastRead,
                   readFailed, sawEOF, given, writeCalls>>
    /\ UNCHANGED notTeeVars

\* A fail-fast wait: it returns at the first goroutine that returned an error.
WaitReturnsFailFast ==
    \/ \A i \in Writers : closeDone[i]
    \/ \E i \in Writers : closeDone[i] /\ closeRes[i] # Nil

\* eg.Wait() returns once every goroutine of the group has returned.
WaitReturns == \A i \in Writers : closeDone[i]

\* func (t *AWSTeeReader) Close(), second part: err := eg.Wait(); t.isClosed = true;
\* return err.
CloseReturn ==
    /\ tpc = "closing"
    /\ WaitReturns
    /\ isClosed' = TRUE
    /\ closeRet' = egErr
    /\ teeCloses' = teeCloses + 1
    /\ tpc' = "idle"
    /\ UNCHANGED <<source, rpos, consumed, closeDone, closeRes, egErr, lastRead,
                   readFailed, sawEOF, bwVars>>
    /\ UNCHANGED notTeeVars

\* a url.URL with nothing set
NoUrl == [err |-> "nil", scheme |-> <<>>, host |-> <<>>, path |-> <<>>, opaque |-> <<>>]

\* the nil error of Restrict
NoErr == [kind |-> "nil", scheme |-> <<>>]

\* No configuration is being restricted.
NoConfig ==
    cfg = [pc |-> "none", err |-> NoErr,
           loaded |-> [RequiredVersion |-> "", S3 |-> FALSE, URLPrefix |-> <<>>,
                       urlPrefix |-> [set |-> FALSE, url |-> NoUrl],
                       Cloudwatch |-> FALSE, LogGroup |-> "", FlushInterval |-> "",
                       BufferLines |-> 0, flushInterval |-> 0],
           now |-> [RequiredVersion |-> "", S3 |-> FALSE, URLPrefix |-> <<>>,
                    urlPrefix |-> [set |-> FALSE, url |-> NoUrl],
                    Cloudwatch |-> FALSE, LogGroup |-> "", FlushInterval |-> "",
                    BufferLines |-> 0, flushInterval |-> 0]]

\* DescribeLogStreams was not called.
NoDescribe == [err |-> "none", out |-> <<>>, isNil |-> TRUE]

\* No cloudwatchLogsWriter is configured.
NoLogWriter ==
    /\ bufferLines = 1 /\ initToken = NoToken
    /\ ppc = "closed" /\ written = <<>> /\ returned = <<>>
    /\ pipe = <<>> /\ cwPwClosed = TRUE /\ cancelled = TRUE
    /\ cwErrCh = <<>> /\ cwWorker = "exited"
    /\ sbuf = <<>> /\ spc = "done" /\ cur = <<>>
    /\ fpc = "exit" /\ events = <<>> /\ sequenceToken = NoToken
    /\ calls = <<>> /\ putFails = 0
    /\ createLogGroup = FALSE /\ describeResp = NoDescribe
    /\ prepCalls = <<>> /\ prepErr = Nil /\ logStream = <<>>

\* No s3Writer is configured.
NoS3Object ==
    /\ urlPrefixPath = <<>> /\ allowOverwrite = FALSE
    /\ objects = {} /\ s3pc = "closed" /\ s3err = Nil
    /\ headResp = [kind |-> "none", code |-> ""]
    /\ key = <<>> /\ tasks = 0 /\ uploads = <<>>
    /\ s3bw = [given |-> <<>>, errCh |-> <<>>, worker |-> "exited", pwClosed |-> TRUE]
    /\ s3written = <<>> /\ s3returned = <<>>

NoS3Writer == outputName = <<>> /\ NoS3Object

\* newAWSTeeReader(r, writeClosers) over a source of at most MaxSrc bytes.
InitTee ==
    /\ NoConfig
    /\ source \in SeqsUpTo(TeeBytes, MaxSrc)
    /\ rpos = 0
    /\ consumed = <<>>
    /\ isClosed = FALSE
    /\ tpc = "idle"
    /\ closeDone = [i \in Writers |-> FALSE]
    /\ closeRes = [i \in Writers |-> Nil]
    /\ egErr = Nil
    /\ closeRet = Nil
    /\ teeCloses = 0
    /\ lastRead = [n |-> 0, err |-> Nil, afterClose |-> FALSE, fwd |-> 0]
    /\ readFailed = FALSE
    /\ sawEOF = FALSE
    /\ given = [i \in Writers |-> <<>>]
    /\ errCh = [i \in Writers |-> <<>>]
    /\ worker = [i \in Writers |-> "running"]
    /\ pwClosed = [i \in Writers |-> FALSE]
    /\ closeCalls = [i \in Writers |-> 0]
    /\ writeCalls = [i \in Writers |-> 0]
    /\ fails = 0
    /\ everFailed = {}
    /\ NoLogWriter
    /\ NoS3Writer

NextTee ==
    \/ \E plen \in 1..MaxChunk : Read(plen)
    \/ CloseStart
    \/ \E i \in Writers : CloseWriter(i)
    \/ CloseReturn
    \/ \E i \in Writers : WorkerReport(i)
    \/ \E i \in Writers : WorkerAbort(i)

SpecTee == InitTee /\ [][NextTee]_vars

(* ====================== cloudwatchLogsWriter ========================== *)

\* The AWSTeeReader is not part of SpecLog: the caller writes to the
\* cloudwatchLogsWriter directly, as TestCloudwatchLogsWriter does.
NoTeeReader ==
    /\ source = <<>> /\ rpos = 0 /\ consumed = <<>> /\ isClosed = TRUE /\ tpc = "idle"
    /\ closeDone = [i \in Writers |-> TRUE]
    /\ closeRes = [i \in Writers |-> Nil]
    /\ egErr = Nil /\ closeRet = Nil /\ teeCloses = MaxCloses
    /\ lastRead = [n |-> 0, err |-> Nil, afterClose |-> FALSE, fwd |-> 0]
    /\ readFailed = FALSE /\ sawEOF = FALSE
    /\ given = [i \in Writers |-> <<>>]
    /\ errCh = [i \in Writers |-> <<>>]
    /\ worker = [i \in Writers |-> "exited"]
    /\ pwClosed = [i \in Writers |-> TRUE]
    /\ closeCalls = [i \in Writers |-> 0]
    /\ writeCalls = [i \in Writers |-> 0]
    /\ fails = 0 /\ everFailed = {}

\* bufio's dropCR: one trailing carriage return is removed from a token.
DropCR(data) ==
    IF data # <<>> /\ data[Len(data)] = CR THEN SubSeq(data, 1, Len(data) - 1) ELSE data

\* bytes.IndexByte(data, '\n') + 1, or 0 when data holds no newline.
IndexNL(data) ==
    IF \E i \in 1..Len(data) : data[i] = NL
    THEN CHOOSE i \in 1..Len(data) : data[i] = NL /\ \A j \in 1..(i - 1) : data[j] # NL
    ELSE 0

\* bufio.ScanLines(data, atEOF), the split function of bufio.NewScanner: the bytes
\* to advance and the token, or has = FALSE when more data is requested.
ScanLines(data, atEOF) ==
    IF atEOF /\ data = <<>> THEN [has |-> FALSE, advance |-> 0, token |-> <<>>]
    ELSE IF IndexNL(data) > 0
    THEN [has |-> TRUE, advance |-> IndexNL(data),
          token |-> DropCR(SubSeq(data, 1, IndexNL(data) - 1))]
    ELSE IF atEOF THEN [has |-> TRUE, advance |-> Len(data), token |-> DropCR(data)]
    ELSE [has |-> FALSE, advance |-> 0, token |-> <<>>]

\* The pipe reader returns io.EOF: the writer is closed and every byte was read.
AtEOF == cwPwClosed /\ pipe = <<>>

\* An off-by-one bound: the batch is put only once it exceeds cfg.BufferLines.
BatchFullOffByOne(n) == n > bufferLines

\* len(events) >= cfg.BufferLines
BatchFull(n) == n >= bufferLines

\* The token of the response is not kept.
TokenAfterPutStale(old, next) == old

\* sequenceToken = output.NextSequenceToken
TokenAfterPut(old, next) == next

\* client.PutLogEvents(...) is called with the batch evs and the current token.
PutLogEvents(evs, kind) ==
    /\ calls' = Append(calls, [events |-> evs, token |-> sequenceToken, kind |-> kind,
                               done |-> FALSE, ok |-> FALSE, next |-> NoToken])
    /\ fpc' = "put"

\* for s.Scan() { if text := s.Text(); text != "" {...} }: the tokens of data are
\* scanned until one is not empty.
RECURSIVE NextText(_, _)
NextText(data, atEOF) ==
    LET t == ScanLines(data, atEOF)
    IN IF ~t.has THEN [found |-> FALSE, rest |-> data, text |-> <<>>]
       ELSE IF t.token # <<>>
       THEN [found |-> TRUE, rest |-> SubSeq(data, t.advance + 1, Len(data)),
             text |-> t.token]
       ELSE NextText(SubSeq(data, t.advance + 1, Len(data)), atEOF)

\* Line-splitting task, from one blocking point to the next. s.Scan() reads the
\* pipe only when no full line is buffered (the read takes the bytes of the blocked
\* pw.Write, or finds end of input); empty texts are skipped; the task then blocks
\* in the send of a non-empty text on the unbuffered channel lines, or in the next
\* read, or, at end of input (s.Err() is nil), closes lines and ends.
SplitterScan ==
    /\ spc = "scan"
    /\ fpc # "panic"
    /\ LET needRead == ~ScanLines(sbuf, FALSE).has
           atEOF == needRead /\ AtEOF
           data == IF needRead THEN sbuf \o pipe ELSE sbuf
           t == NextText(data, atEOF)
       IN /\ (needRead /\ pipe = <<>>) => cwPwClosed
          /\ pipe' = IF needRead THEN <<>> ELSE pipe
          /\ sbuf' = t.rest
          /\ IF t.found THEN spc' = "send" /\ cur' = t.text
             ELSE IF atEOF THEN spc' = "done" /\ UNCHANGED cur
             ELSE UNCHANGED <<spc, cur>>
    /\ UNCHANGED <<notLogVars, bufferLines, initToken, ppc, written, returned,
                   cwPwClosed, cancelled, cwErrCh, cwWorker, fpc, events, sequenceToken,
                   calls, putFails>>

\* Batching/flush task, case line, ok := <-lines with a sender waiting: the event
\* is appended, and the batch is put once it holds cfg.BufferLines events. (With
\* lines closed the case receives ok = false and, for cfg.BufferLines >= 1, does
\* nothing.)
LoopRecv ==
    /\ fpc = "select"
    /\ spc = "send"
    /\ spc' = "scan"
    /\ cur' = <<>>
    /\ events' = Append(events, cur)
    /\ IF BatchFull(Len(events) + 1)
       THEN PutLogEvents(Append(events, cur), "size")
       ELSE UNCHANGED <<fpc, calls>>
    /\ UNCHANGED <<notLogVars, bufferLines, initToken, ppc, written, returned, pipe,
                   cwPwClosed, cancelled, cwErrCh, cwWorker, sbuf, sequenceToken,
                   putFails>>

\* A tick that never flushes.
TickFlushesNever(evs) == FALSE

\* case <-t.C: if len(events) > 0
TickFlushes(evs) == Len(evs) > 0

\* A timer flush that runs beside the select loop, also while a call is in flight.
LoopTickConcurrent ==
    /\ fpc \in {"select", "put"}
    /\ Len(events) > 0
    /\ PutLogEvents(events, "timer")
    /\ UNCHANGED <<notLogVars, bufferLines, initToken, ppc, written, returned, pipe,
                   cwPwClosed, cancelled, cwErrCh, cwWorker, sbuf, spc, cur, events,
                   sequenceToken, putFails>>

\* Batching/flush task, case <-t.C: the ticker of cfg.flushInterval has fired (t.C
\* buffers one tick until the select loop takes it) and the batch is not empty: it
\* is put. (A tick taken with an empty batch changes nothing.)
LoopTick ==
    /\ fpc = "select"
    /\ TickFlushes(events)
    /\ PutLogEvents(events, "timer")
    /\ UNCHANGED <<notLogVars, bufferLines, initToken, ppc, written, returned, pipe,
                   cwPwClosed, cancelled, cwErrCh, cwWorker, sbuf, spc, cur, events,
                   sequenceToken, putFails>>

\* Batching/flush task, case <-ctx.Done(): isDone = true, the loop ends and the
\* task waits for the line-splitting task in wg.Wait().
LoopDone ==
    /\ fpc = "select"
    /\ cancelled
    /\ fpc' = "wait"
    /\ UNCHANGED <<notLogVars, bufferLines, initToken, ppc, written, returned, pipe,
                   cwPwClosed, cancelled, cwErrCh, cwWorker, sbuf, spc, cur, events,
                   sequenceToken, calls, putFails>>

\* What the log service answers to a PutLogEvents call: success with the next
\* token (new, or absent); an error with a nil output, as the SDK client returns
\* it; an error with an empty output.
Responses ==
    {[ok |-> TRUE, out |-> TRUE, next |-> t] : t \in {NoToken, Len(calls) + 1}}
    \cup
    {[ok |-> FALSE, out |-> FALSE, next |-> NoToken],
     [ok |-> FALSE, out |-> TRUE, next |-> NoToken]}

\* PutLogEvents returns in the select loop (size or timer flush): an error is sent
\* on the error channel; then output.NextSequenceToken is read -- a nil output
\* panics -- and events is replaced by an empty slice, error or not.
PutReturnInLoop ==
    /\ fpc = "put"
    /\ calls[Len(calls)].kind # "final"
    /\ \E r \in Responses :
         /\ ~r.ok => putFails < MaxPutFails /\ Len(cwErrCh) < ErrChCap
         /\ calls' = [calls EXCEPT ![Len(calls)].done = TRUE, ![Len(calls)].ok = r.ok,
                                 ![Len(calls)].next = r.next]
         /\ cwErrCh' = IF r.ok THEN cwErrCh ELSE Append(cwErrCh, PutErr(Len(calls)))
         /\ putFails' = IF r.ok THEN putFails ELSE putFails + 1
         /\ IF r.out
            THEN /\ sequenceToken' = TokenAfterPut(sequenceToken, r.next)
                 /\ events' = <<>>
                 /\ fpc' = "select"
            ELSE /\ fpc' = "panic"
                 /\ UNCHANGED <<sequenceToken, events>>
    /\ UNCHANGED <<notLogVars, bufferLines, initToken, ppc, written, returned, pipe,
                   cwPwClosed, cancelled, cwWorker, sbuf, spc, cur>>

\* The final put is forgotten.
NeedsFinalPutNever(evs) == FALSE

\* if len(events) > 0, after the loop
NeedsFinalPut(evs) == Len(evs) > 0

\* Batching/flush task after the loop: wg.Wait() returns once the line-splitting
\* task has ended; lines is closed and empty, so the range loop adds nothing; a
\* non-empty batch is put with the current token.
Drain ==
    /\ fpc = "wait"
    /\ spc = "done"
    /\ IF NeedsFinalPut(events)
       THEN PutLogEvents(events, "final")
       ELSE fpc' = "exit" /\ UNCHANGED calls
    /\ UNCHANGED <<notLogVars, bufferLines, initToken, ppc, written, returned, pipe,
                   cwPwClosed, cancelled, cwErrCh, cwWorker, sbuf, spc, cur, events,
                   sequenceToken, putFails>>

\* The final PutLogEvents returns: an error is sent on the error channel; the
\* output is not read.
PutReturnFinal ==
    /\ fpc = "put"
    /\ calls[Len(calls)].kind = "final"
    /\ \E r \in Responses :
         /\ ~r.ok => putFails < MaxPutFails /\ Len(cwErrCh) < ErrChCap
         /\ calls' = [calls EXCEPT ![Len(calls)].done = TRUE, ![Len(calls)].ok = r.ok,
                                 ![Len(calls)].next = r.next]
         /\ cwErrCh' = IF r.ok THEN cwErrCh ELSE Append(cwErrCh, PutErr(Len(calls)))
         /\ putFails' = IF r.ok THEN putFails ELSE putFails + 1
    /\ fpc' = "exit"
    /\ UNCHANGED <<notLogVars, bufferLines, initToken, ppc, written, returned, pipe,
                   cwPwClosed, cancelled, cwWorker, sbuf, spc, cur, events, sequenceToken>>

\* The worker function returned: newBackgroundWriter's goroutine closes errCh and
\* the pipe reader, and wg.Done() runs.
WorkerReturn ==
    /\ fpc = "exit"
    /\ cwWorker = "running"
    /\ cwWorker' = "exited"
    /\ UNCHANGED <<notLogVars, bufferLines, initToken, ppc, written, returned, pipe,
                   cwPwClosed, cancelled, cwErrCh, sbuf, spc, cur, fpc, events,
                   sequenceToken, calls, putFails>>

\* The byte slices a caller may hand to Write.
CwChunks == SeqsUpTo(CwBytes, MaxInput) \ {<<>>}

\* The caller calls Write(p) (the embedded backgroundWriter.Write) with a non-empty
\* p: pw.Write(p) blocks until the reader has read p.
CwWriteOf(chunks) ==
    /\ ppc = "idle"
    /\ fpc # "panic"
    /\ Len(written) < MaxInput
    /\ \E p \in chunks :
         /\ Len(written) + Len(p) <= MaxInput
         /\ pipe' = p
         /\ written' = written \o p
    /\ ppc' = "write"
    /\ UNCHANGED <<notLogVars, bufferLines, initToken, returned, cwPwClosed, cancelled,
                   cwErrCh, cwWorker, sbuf, spc, cur, fpc, events, sequenceToken,
                   calls, putFails>>

CwWrite == CwWriteOf(CwChunks)

\* pw.Write returned; Write returns w.Err().
CwWriteReturn ==
    /\ ppc = "write"
    /\ fpc # "panic"
    /\ pipe = <<>>
    /\ returned' = IF Err(cwErrCh) # Nil THEN Append(returned, Err(cwErrCh)) ELSE returned
    /\ cwErrCh' = ErrRest(cwErrCh)
    /\ ppc' = "idle"
    /\ UNCHANGED <<notLogVars, bufferLines, initToken, written, pipe, cwPwClosed,
                   cancelled, cwWorker, sbuf, spc, cur, fpc, events, sequenceToken,
                   calls, putFails>>

\* func (w *cloudwatchLogsWriter) Close(), first statement:
\* io.WriteString(w.backgroundWriter, "\n").
CwClose ==
    /\ ppc = "idle"
    /\ fpc # "panic"
    /\ ppc' = "close_nl"
    /\ pipe' = <<NL>>
    /\ UNCHANGED <<notLogVars, bufferLines, initToken, written, returned, cwPwClosed,
                   cancelled, cwErrCh, cwWorker, sbuf, spc, cur, fpc, events,
                   sequenceToken, calls, putFails>>

\* The write of "\n" returned, its result (n, w.Err()) is not looked at; then
\* backgroundWriter.Close(): pw.Close(), w.cancel(), and the wait in w.wg.Wait().
CwCloseCancel ==
    /\ ppc = "close_nl"
    /\ fpc # "panic"
    /\ pipe = <<>>
    /\ cwErrCh' = ErrRest(cwErrCh)
    /\ cwPwClosed' = TRUE
    /\ cancelled' = TRUE
    /\ ppc' = "close_wait"
    /\ UNCHANGED <<notLogVars, bufferLines, initToken, written, returned, pipe, cwWorker,
                   sbuf, spc, cur, fpc, events, sequenceToken, calls, putFails>>

\* A Close that does not wait for the worker.
CwCloseReturnNoWait ==
    /\ ppc = "close_wait"
    /\ returned' = IF Err(cwErrCh) # Nil THEN Append(returned, Err(cwErrCh)) ELSE returned
    /\ cwErrCh' = ErrRest(cwErrCh)
    /\ ppc' = "closed"
    /\ UNCHANGED <<notLogVars, bufferLines, initToken, written, pipe, cwPwClosed,
                   cancelled, cwWorker, sbuf, spc, cur, fpc, events, sequenceToken,
                   calls, putFails>>

\* w.wg.Wait() returned; Close returns w.Err() (pw.Close() returned nil).
CwCloseReturn ==
    /\ ppc = "close_wait"
    /\ cwWorker = "exited"
    /\ returned' = IF Err(cwErrCh) # Nil THEN Append(returned, Err(cwErrCh)) ELSE returned
    /\ cwErrCh' = ErrRest(cwErrCh)
    /\ ppc' = "closed"
    /\ UNCHANGED <<notLogVars, bufferLines, initToken, written, pipe, cwPwClosed,
                   cancelled, cwWorker, sbuf, spc, cur, fpc, events, sequenceToken,
                   calls, putFails>>

\* prepareCloudwatchLogs is over and is not looked at: its calls are not recorded.
Prepared ==
    /\ createLogGroup = FALSE /\ describeResp = NoDescribe
    /\ prepCalls = <<>> /\ prepErr = Nil /\ logStream = <<>>

\* newCloudWatchLogsWriter returned a writer: the stream is prepared, the worker
\* runs with an empty batch and the token of the preparation step.
InitLog ==
    /\ NoConfig
    /\ NoTeeReader
    /\ NoS3Writer
    /\ bufferLines \in 1..MaxBufferLines
    /\ initToken \in {NoToken, 1}
    /\ sequenceToken = initToken
    /\ ppc = "idle" /\ written = <<>> /\ returned = <<>>
    /\ pipe = <<>> /\ cwPwClosed = FALSE /\ cancelled = FALSE
    /\ cwErrCh = <<>> /\ cwWorker = "running"
    /\ sbuf = <<>> /\ spc = "scan" /\ cur = <<>>
    /\ fpc = "select" /\ events = <<>>
    /\ calls = <<>> /\ putFails = 0
    /\ Prepared

NextLog ==
    \/ CwWrite
    \/ CwWriteReturn
    \/ CwClose
    \/ CwCloseCancel
    \/ CwCloseReturn
    \/ SplitterScan
    \/ LoopRecv
    \/ LoopTick
    \/ LoopDone
    \/ PutReturnInLoop
    \/ Drain
    \/ PutReturnFinal
    \/ WorkerReturn

SpecLog == InitLog /\ [][NextLog]_vars

\* The same with a ticker that keeps firing: t.C delivers a tick every
\* cfg.flushInterval and the select loop, when it waits, takes it.
SpecLogFair == SpecLog /\ WF_vars(LoopTick)

(* ======== cloudwatchLogsWriter: a log service that refuses ============ *)

\* k lines "a\n"
RECURSIVE RefusedLines(_)
RefusedLines(k) == IF k = 0 THEN <<>> ELSE <<"a", NL>> \o RefusedLines(k - 1)

\* The caller calls Write(p) with p made of whole lines.
ErrWrite ==
    /\ ppc = "idle"
    /\ \E k \in 1..MaxRefused :
         /\ Len(written) + 2 * k <= 2 * MaxRefused
         /\ pipe' = RefusedLines(k)
         /\ written' = written \o RefusedLines(k)
    /\ ppc' = "write"
    /\ UNCHANGED <<notLogVars, bufferLines, initToken, returned, cwPwClosed, cancelled,
                   cwErrCh, cwWorker, sbuf, spc, cur, fpc, events, sequenceToken,
                   calls, putFails>>

\* PutLogEvents returns an error and an output without token, in the select loop:
\* the error is logged and the task comes to c <- err.
ErrPutReturn ==
    /\ fpc = "put"
    /\ calls[Len(calls)].kind # "final"
    /\ calls' = [calls EXCEPT ![Len(calls)].done = TRUE]
    /\ fpc' = "send_err"
    /\ UNCHANGED <<notLogVars, bufferLines, initToken, ppc, written, returned, pipe,
                   cwPwClosed, cancelled, cwErrCh, cwWorker, sbuf, spc, cur, events,
                   sequenceToken, putFails>>

\* c <- err on errCh, a channel of capacity 10: the send goes through once the
\* channel holds fewer than 10 errors.
ErrChHasRoom(ch) == Len(ch) < ErrChCap

\* c <- err goes through; then sequenceToken = output.NextSequenceToken and the
\* batch is emptied.
ErrSend ==
    /\ fpc = "send_err"
    /\ ErrChHasRoom(cwErrCh)
    /\ cwErrCh' = Append(cwErrCh, PutErr(Len(calls)))
    /\ putFails' = putFails + 1
    /\ sequenceToken' = TokenAfterPut(sequenceToken, NoToken)
    /\ events' = <<>>
    /\ fpc' = "select"
    /\ UNCHANGED <<notLogVars, bufferLines, initToken, ppc, written, returned, pipe,
                   cwPwClosed, cancelled, cwWorker, sbuf, spc, cur, calls>>

\* newCloudWatchLogsWriter returned a writer with cfg.BufferLines = 1: every line
\* is a batch.
InitErr ==
    /\ NoConfig
    /\ NoTeeReader
    /\ NoS3Writer
    /\ bufferLines = 1
    /\ initToken \in {NoToken, 1}
    /\ sequenceToken = initToken
    /\ ppc = "idle" /\ written = <<>> /\ returned = <<>>
    /\ pipe = <<>> /\ cwPwClosed = FALSE /\ cancelled = FALSE
    /\ cwErrCh = <<>> /\ cwWorker = "running"
    /\ sbuf = <<>> /\ spc = "scan" /\ cur = <<>>
    /\ fpc = "select" /\ events = <<>>
    /\ calls = <<>> /\ putFails = 0
    /\ Prepared

NextErr ==
    \/ ErrWrite
    \/ CwWriteReturn
    \/ CwClose
    \/ CwCloseCancel
    \/ CwCloseReturn
    \/ SplitterScan
    \/ LoopRecv
    \/ LoopDone
    \/ ErrPutReturn
    \/ ErrSend
    \/ Drain
    \/ WorkerReturn

SpecErr == InitErr /\ [][NextErr]_vars

(* ======== newCloudWatchLogsWriter: the log stream name ================ *)

LogNameBytes == {"/", ".", "a"}

\* The output name of TestCloudwatchLogsWriter, a run of letters standing as one
\* symbol.
TestLogName == <<"/", "test", "/", "hogehoge", ".", "log">>
LogOutputNames == SeqsUpTo(LogNameBytes, MaxOutputName) \cup {TestLogName}

\* An extension that is never found.
ExtNone(path) == <<>>

\* filepath.Ext(path): the suffix of path from the last dot of its last element,
\* empty if that element has no dot.
Ext(path) ==
    LET slashes == {i \in 1..Len(path) : path[i] = "/"}
        dots == {i \in 1..Len(path) : path[i] = "." /\ \A j \in slashes : j < i}
    IN IF dots = {} THEN <<>>
       ELSE SubSeq(path, CHOOSE i \in dots : \A j \in dots : j <= i, Len(path))

\* strings.TrimSuffix(s, suffix)
TrimSuffix(s, suffix) ==
    IF Len(suffix) <= Len(s) /\ SubSeq(s, Len(s) - Len(suffix) + 1, Len(s)) = suffix
    THEN SubSeq(s, 1, Len(s) - Len(suffix))
    ELSE s

\* strings.ReplaceAll(s, "/", "-")
ReplaceSlashes(s) == [i \in 1..Len(s) |-> IF s[i] = "/" THEN "-" ELSE s[i]]

\* The log stream name newCloudWatchLogsWriter resolves from outputName.
LogStreamName(name) == ReplaceSlashes(TrimLeftSlash(TrimSuffix(name, Ext(name))))

\* newCloudWatchLogsWriter, its first two statements.
ResolveLogStream ==
    /\ ppc = "new"
    /\ logStream' = LogStreamName(outputName)
    /\ ppc' = "named"
    /\ UNCHANGED <<teeVars, bwVars, s3Vars, cfg, createLogGroup, describeResp, prepCalls, prepErr>>
    /\ UNCHANGED <<bufferLines, initToken, written, returned, pipe, cwPwClosed, cancelled,
                   cwErrCh, cwWorker, sbuf, spc, cur, fpc, events, sequenceToken, calls,
                   putFails>>

\* Any output name; newCloudWatchLogsWriter is called with it.
InitName ==
    /\ NoConfig
    /\ NoTeeReader
    /\ NoS3Object
    /\ outputName \in LogOutputNames
    /\ createLogGroup = FALSE
    /\ describeResp = NoDescribe /\ prepCalls = <<>> /\ prepErr = Nil /\ logStream = <<>>
    /\ bufferLines = 1
    /\ initToken = NoToken /\ sequenceToken = NoToken
    /\ ppc = "new" /\ written = <<>> /\ returned = <<>>
    /\ pipe = <<>> /\ cwPwClosed = FALSE /\ cancelled = FALSE
    /\ cwErrCh = <<>> /\ cwWorker = "none"
    /\ sbuf = <<>> /\ spc = "none" /\ cur = <<>>
    /\ fpc = "none" /\ events = <<>>
    /\ calls = <<>> /\ putFails = 0

NextName == ResolveLogStream

SpecName == InitName /\ [][NextName]_vars

(* =========== newCloudWatchLogsWriter: prepareCloudwatchLogs =========== *)

\* The resolved log stream name, and the names DescribeLogStreams can return for
\* it as LogStreamNamePrefix: the name itself and longer names that begin with it.
PrepOutputName == <<"/", "t", ".", "x">>
TargetStream == LogStreamName(PrepOutputName)
StreamNames == {TargetStream} \cup {TargetStream \o <<k>> : k \in 1..MaxOtherStreams}
StreamTokens == {NoToken, 1, 2}
LogStreams == [name : StreamNames, token : StreamTokens]

\* What DescribeLogStreams can answer: streams of distinct names; or an error --
\* the API error ResourceNotFoundException saying the log group does not exist,
\* the same code with another message, an API error of another code, an error
\* that is no API error -- with a nil output, as the SDK client returns it, or
\* with an empty one.
DescribeErrors == {"GroupNotFound", "ResourceNotFound", "ApiOther", "NonApi"}
DescribeResponses ==
    {[err |-> "nil", out |-> o, isNil |-> FALSE] :
        o \in {s \in SeqsUpTo(LogStreams, Cardinality(StreamNames)) :
                 \A i, j \in 1..Len(s) : i # j => s[i].name # s[j].name}}
    \cup
    {[err |-> e, out |-> <<>>, isNil |-> n] : e \in DescribeErrors, n \in BOOLEAN}

DescribeErr(desc) == [kind |-> desc.err, w |-> 0]
CreateLogGroupErr == [kind |-> "CreateLogGroup", w |-> 0]
CreateLogStreamErr == [kind |-> "CreateLogStream", w |-> 0]

\* prepareCloudwatchLogs, the handling of the describe error: the calls made so
\* far and the error returned, nil if the function goes on. An error that is no
\* API error is not returned.
AfterDescribe(desc, create, cgOk) ==
    IF desc.err \in {"nil", "NonApi"}
    THEN [calls |-> <<"DescribeLogStreams">>, err |-> Nil]
    ELSE IF desc.err # "GroupNotFound" \/ ~create
    THEN [calls |-> <<"DescribeLogStreams">>, err |-> DescribeErr(desc)]
    ELSE [calls |-> <<"DescribeLogStreams", "CreateLogGroup">>,
          err |-> IF cgOk THEN Nil ELSE CreateLogGroupErr]

\* A search that takes the first stream returned, whatever its name.
FindStreamAny(out, name) == IF out = <<>> THEN 0 ELSE 1

\* for _, logStream := range output.LogStreams: the index of the first stream
\* whose name equals name, or 0.
FindStream(out, name) ==
    IF \E i \in 1..Len(out) : out[i].name = name
    THEN CHOOSE i \in 1..Len(out) :
             out[i].name = name /\ \A j \in 1..(i - 1) : out[j].name # name
    ELSE 0

\* func prepareCloudwatchLogs, for the answers of the three client calls: the calls
\* made, the token and error returned, and whether it panics reading the
\* LogStreams of a nil output.
prepareCloudwatchLogs(desc, name, create, cgOk, csOk) ==
    LET a == AfterDescribe(desc, create, cgOk)
        i == FindStream(desc.out, name)
    IN IF a.err # Nil
       THEN [calls |-> a.calls, err |-> a.err, token |-> NoToken, panics |-> FALSE]
       ELSE IF desc.isNil
       THEN [calls |-> a.calls, err |-> Nil, token |-> NoToken, panics |-> TRUE]
       ELSE IF i > 0
       THEN [calls |-> a.calls, err |-> Nil, token |-> desc.out[i].token, panics |-> FALSE]
       ELSE [calls |-> Append(a.calls, "CreateLogStream"),
             err |-> IF csOk THEN Nil ELSE CreateLogStreamErr,
             token |-> NoToken, panics |-> FALSE]

\* func newCloudWatchLogsWriter: the log stream name, prepareCloudwatchLogs, and if it returned no
\* error newBackgroundWriter: the worker starts with the returned token and an
\* empty batch, and Err() finds no error (the worker has read nothing yet).
NewCloudWatchLogsWriter ==
    /\ ppc = "new"
    /\ \E desc \in DescribeResponses, cgOk \in BOOLEAN, csOk \in BOOLEAN :
         LET name == LogStreamName(outputName)
             r == prepareCloudwatchLogs(desc, name, createLogGroup, cgOk, csOk)
         IN /\ logStream' = name
            /\ describeResp' = desc
            /\ prepCalls' = r.calls
            /\ prepErr' = r.err
            /\ IF r.panics
               THEN /\ ppc' = "panicked"
                    /\ UNCHANGED <<initToken, sequenceToken, cwWorker, spc, fpc>>
               ELSE IF r.err # Nil
               THEN /\ ppc' = "failed"
                    /\ UNCHANGED <<initToken, sequenceToken, cwWorker, spc, fpc>>
               ELSE /\ ppc' = "idle"
                    /\ initToken' = r.token
                    /\ sequenceToken' = r.token
                    /\ cwWorker' = "running"
                    /\ spc' = "scan"
                    /\ fpc' = "select"
    /\ UNCHANGED <<teeVars, bwVars, s3Vars, cfg, createLogGroup, bufferLines, written, returned,
                   pipe, cwPwClosed, cancelled, cwErrCh, sbuf, cur, events, calls, putFails>>

\* The caller writes one line.
PrepWrite ==
    /\ written = <<>>
    /\ CwWriteOf({<<"a", NL>>})

\* A configuration cfg.Restrict accepted; newCloudWatchLogsWriter not yet called.
InitPrep ==
    /\ NoConfig
    /\ NoTeeReader
    /\ NoS3Object
    /\ outputName = PrepOutputName
    /\ createLogGroup \in BOOLEAN
    /\ describeResp = NoDescribe /\ prepCalls = <<>> /\ prepErr = Nil /\ logStream = <<>>
    /\ bufferLines \in 1..MaxBufferLines
    /\ initToken = NoToken /\ sequenceToken = NoToken
    /\ ppc = "new" /\ written = <<>> /\ returned = <<>>
    /\ pipe = <<>> /\ cwPwClosed = FALSE /\ cancelled = FALSE
    /\ cwErrCh = <<>> /\ cwWorker = "none"
    /\ sbuf = <<>> /\ spc = "none" /\ cur = <<>>
    /\ fpc = "none" /\ events = <<>>
    /\ calls = <<>> /\ putFails = 0

NextPrep ==
    \/ NewCloudWatchLogsWriter
    \/ PrepWrite
    \/ CwWriteReturn
    \/ CwClose
    \/ CwCloseCancel
    \/ CwCloseReturn
    \/ SplitterScan
    \/ LoopRecv
    \/ LoopTick
    \/ LoopDone
    \/ PutReturnInLoop
    \/ Drain
    \/ PutReturnFinal
    \/ WorkerReturn

SpecPrep == InitPrep /\ [][NextPrep]_vars

(* ============================= s3Writer =============================== *)

PathBytes == {"/", "d"}
NameBytes == {"/", "o"}
S3Bytes == {"a"}

\* The prefix paths and the output name of TestS3WriterPutObject and
\* TestS3WriterMultiPart, a path element standing as one symbol.
TestPaths == {<<"/", "logs", "/">>, <<"/", "logs">>}
TestName == <<"/", "test", "/", "hogehoge.log">>

\* url.Parse leaves a path that is empty or starts with a slash.
UrlPaths == {p \in SeqsUpTo(PathBytes, MaxPath) : p = <<>> \/ p[1] = "/"} \cup TestPaths
OutputNames == (SeqsUpTo(NameBytes, MaxName) \ {<<>>}) \cup {TestName}

\* A test that never sees the trailing slash.
HasSuffixSlashNever(s) == FALSE

\* strings.HasSuffix(s, "/")
HasSuffixSlash(s) == s # <<>> /\ s[Len(s)] = "/"

\* filepath.Clean on a non-empty path without "." and ".." elements: a run of
\* slashes becomes one slash, and a trailing slash goes unless the path is "/".
RECURSIVE CollapseSlashes(_)
CollapseSlashes(s) ==
    IF Len(s) < 2 THEN s
    ELSE IF s[1] = "/" /\ s[2] = "/" THEN CollapseSlashes(Tail(s))
    ELSE <<s[1]>> \o CollapseSlashes(Tail(s))

Clean(s) ==
    LET c == CollapseSlashes(s)
    IN IF Len(c) > 1 /\ c[Len(c)] = "/" THEN SubSeq(c, 1, Len(c) - 1) ELSE c

\* filepath.Join(a, b) with a non-empty: the non-empty elements joined by a slash,
\* then cleaned.
Join(a, b) == Clean(IF b = <<>> THEN a ELSE a \o <<"/">> \o b)

\* The key newS3Writer derives from cfg.urlPrefix.Path and outputName.
S3Key(path, name) ==
    TrimLeftSlash(IF HasSuffixSlash(path) THEN Join(path, name) ELSE path \o name)

\* cfg.urlPrefix.Host
Bucket == "bucket"

\* func (w *s3Writer) String(): fmt.Sprintf("s3://%s/%s", w.bucket, w.key)
S3String(bucket, k) == <<"s3:", "/", "/", bucket, "/">> \o k

\* What HeadObject can answer for key k: the object's head if it is there, the
\* API error NotFound if it is not, another API error, or an error that is no
\* API error.
NoHead == [kind |-> "none", code |-> ""]
HeadResponses(k) ==
    (IF k \in objects THEN {[kind |-> "ok", code |-> ""]}
                      ELSE {[kind |-> "api", code |-> "NotFound"]})
    \cup {[kind |-> "api", code |-> "Forbidden"], [kind |-> "other", code |-> ""]}

\* the error of a failed HeadObject
HeadErr(resp) == [kind |-> "head:" \o resp.kind \o resp.code, w |-> 0]
\* fmt.Errorf("s3://%s/%s is already exists, not allow overwrite", bucket, key)
AlreadyExists == [kind |-> "already exists", w |-> 0]

\* func s3ObjectAlreadyExists: (true, nil) if HeadObject succeeds, (false, nil) on
\* the API error NotFound, (false, err) on any other error.
s3ObjectAlreadyExists(resp) ==
    IF resp.kind = "ok" THEN [exists |-> TRUE, err |-> Nil]
    ELSE IF resp.kind = "api" /\ resp.code = "NotFound" THEN [exists |-> FALSE, err |-> Nil]
    ELSE [exists |-> FALSE, err |-> HeadErr(resp)]

\* A probe whose positive answer is not looked at.
ProbeVerdictNoConflict(r, allow) ==
    IF r.err # Nil /\ ~allow THEN r.err ELSE Nil

\* newS3Writer's decision on the probe's result r: the error it returns before
\* anything is started, or nil. A probe error counts only if overwriting is not
\* allowed, and so does an existing object.
ProbeVerdict(r, allow) ==
    IF r.err # Nil
    THEN IF ~allow THEN r.err ELSE Nil
    ELSE IF r.exists /\ ~allow THEN AlreadyExists ELSE Nil

\* func newS3Writer(client, cfg, outputName): the key, the probe, and if the probe
\* admits it newBackgroundWriter: the goroutine is started and Err() polled. The
\* worker blocks in uploader.Upload on the empty pipe, so the poll finds no error.
NewS3Writer ==
    /\ s3pc = "new"
    /\ LET k == S3Key(urlPrefixPath, outputName)
       IN \E resp \in HeadResponses(k) :
            LET v == ProbeVerdict(s3ObjectAlreadyExists(resp), allowOverwrite)
            IN /\ headResp' = resp
               /\ s3err' = v
               /\ IF v # Nil
                  THEN /\ s3pc' = "failed"
                       /\ UNCHANGED <<key, tasks, s3bw>>
                  ELSE /\ s3pc' = "open"
                       /\ key' = k
                       /\ tasks' = tasks + 1
                       /\ s3bw' = [given |-> <<>>, errCh |-> <<>>,
                                   worker |-> "started", pwClosed |-> FALSE]
    /\ UNCHANGED <<urlPrefixPath, outputName, allowOverwrite, objects, uploads,
                   s3written, s3returned>>
    /\ UNCHANGED notS3Vars

\* The worker calls uploader.Upload(ctx, PutObjectInput{Bucket, Key, Body: pr}).
UploadStart ==
    /\ s3bw.worker = "started"
    /\ uploads' = Append(uploads, [key |-> key, body |-> <<>>, done |-> FALSE, ok |-> FALSE])
    /\ s3bw' = [s3bw EXCEPT !.worker = "running"]
    /\ UNCHANGED <<urlPrefixPath, outputName, allowOverwrite, objects, s3pc, s3err,
                   headResp, key, tasks, s3written, s3returned>>
    /\ UNCHANGED notS3Vars

\* The last Upload call with its outcome filled in.
UploadDone(body, ok) ==
    [uploads EXCEPT ![Len(uploads)] = [@ EXCEPT !.body = body, !.done = TRUE, !.ok = ok]]

\* uploader.Upload fails while the body is still being written (a part upload
\* failed): c <- err, the worker returns, errCh and pr are closed.
UploadFail ==
    /\ s3bw.worker = "running"
    /\ ~s3bw.pwClosed
    /\ s3bw.given # <<>>
    /\ s3bw' = [s3bw EXCEPT !.errCh = Append(@, WorkerErr(1)), !.worker = "exited"]
    /\ uploads' = UploadDone(s3bw.given, FALSE)
    /\ UNCHANGED <<urlPrefixPath, outputName, allowOverwrite, objects, s3pc, s3err,
                   headResp, key, tasks, s3written, s3returned>>
    /\ UNCHANGED notS3Vars

\* One call of s3Writer.Write(p), which is backgroundWriter.Write. The pipe hands
\* p over once Upload reads it.
S3Write ==
    /\ s3pc = "open"
    /\ s3bw.worker # "started"
    /\ Len(s3written) < MaxS3Input
    /\ \E p \in SeqsUpTo(S3Bytes, MaxS3Input - Len(s3written)) \ {<<>>} :
         LET r == bwWrite(1, s3bw, p)
         IN /\ s3bw' = r.st
            /\ s3written' = s3written \o p
            /\ s3returned' = IF r.err = Nil THEN s3returned ELSE Append(s3returned, r.err)
    /\ UNCHANGED <<urlPrefixPath, outputName, allowOverwrite, objects, s3pc, s3err,
                   headResp, key, tasks, uploads>>
    /\ UNCHANGED notS3Vars

\* func (w *s3Writer) Close(), which is backgroundWriter.Close: Upload reads
\* end-of-input and puts the object, or fails; the worker returns.
S3Close ==
    /\ s3pc = "open"
    /\ s3bw.worker # "started"
    /\ \E workerFails \in BOOLEAN :
         LET r == bwClose(1, s3bw, workerFails)
             stored == s3bw.worker = "running" /\ ~workerFails
         IN /\ s3bw' = r.st
            /\ s3returned' = IF r.err = Nil THEN s3returned ELSE Append(s3returned, r.err)
            /\ uploads' = IF s3bw.worker = "running"
                          THEN UploadDone(s3bw.given, ~workerFails) ELSE uploads
            /\ objects' = IF stored THEN objects \cup {key} ELSE objects
    /\ s3pc' = "closed"
    /\ UNCHANGED <<urlPrefixPath, outputName, allowOverwrite, s3err, headResp, key,
                   tasks, s3written>>
    /\ UNCHANGED notS3Vars

\* A configuration cfg.Restrict accepted, a bucket that holds the object of the
\* derived key or not, and newS3Writer not yet called.
InitS3 ==
    /\ NoConfig
    /\ NoTeeReader
    /\ NoLogWriter
    /\ urlPrefixPath \in UrlPaths
    /\ outputName \in OutputNames
    /\ allowOverwrite \in BOOLEAN
    /\ objects \in SUBSET {S3Key(urlPrefixPath, outputName)}
    /\ s3pc = "new" /\ s3err = Nil /\ headResp = NoHead
    /\ key = <<>> /\ tasks = 0 /\ uploads = <<>>
    /\ s3bw = [given |-> <<>>, errCh |-> <<>>, worker |-> "none", pwClosed |-> FALSE]
    /\ s3written = <<>> /\ s3returned = <<>>

NextS3 ==
    \/ NewS3Writer
    \/ UploadStart
    \/ UploadFail
    \/ S3Write
    \/ S3Close

SpecS3 == InitS3 /\ [][NextS3]_vars

(* ===================== newBackgroundWriter ============================ *)

\* errors.New("worker is nil")
WorkerIsNil == [kind |-> "worker is nil", w |-> 0]

\* func newBackgroundWriter(worker), up to the poll: without a worker function
\* the error is returned; else the pipe and the channel are made and the
\* goroutine that runs the worker is started. s3bw.worker is "nil" for an absent
\* worker function and "none" for one that is not started.
NewBackgroundWriter ==
    /\ s3pc = "new"
    /\ IF s3bw.worker = "nil"
       THEN /\ s3pc' = "failed"
            /\ s3err' = WorkerIsNil
            /\ UNCHANGED <<tasks, s3bw>>
       ELSE /\ s3pc' = "poll"
            /\ tasks' = tasks + 1
            /\ s3bw' = [s3bw EXCEPT !.worker = "running"]
            /\ UNCHANGED s3err
    /\ UNCHANGED <<urlPrefixPath, outputName, allowOverwrite, objects, headResp, key,
                   uploads, s3written, s3returned>>
    /\ UNCHANGED notS3Vars

\* The worker sends an error on the channel and goes on.
BwWorkerReport ==
    /\ s3bw.worker = "running"
    /\ Len(s3bw.errCh) < MaxFails
    /\ s3bw' = [s3bw EXCEPT !.errCh = Append(@, WorkerErr(1))]
    /\ UNCHANGED <<urlPrefixPath, outputName, allowOverwrite, objects, s3pc, s3err,
                   headResp, key, tasks, uploads, s3written, s3returned>>
    /\ UNCHANGED notS3Vars

\* The worker function returns, at the end of its input, on cancellation or of
\* its own accord: the goroutine closes errCh and the pipe reader, and wg.Done().
BwWorkerExit ==
    /\ s3bw.worker = "running"
    /\ s3bw' = [s3bw EXCEPT !.worker = "exited"]
    /\ UNCHANGED <<urlPrefixPath, outputName, allowOverwrite, objects, s3pc, s3err,
                   headResp, key, tasks, uploads, s3written, s3returned>>
    /\ UNCHANGED notS3Vars

\* newBackgroundWriter, if err := w.Err(); err != nil { w.Close(); return nil, err }:
\* the poll is over. With an error, w.Close() closes the pipe writer, cancels the
\* context and waits for the worker; without, the writer is returned.
BwPoll ==
    /\ s3pc = "poll"
    /\ IF Err(s3bw.errCh) # Nil
       THEN /\ s3pc' = "closing"
            /\ s3err' = Err(s3bw.errCh)
            /\ s3bw' = [s3bw EXCEPT !.errCh = ErrRest(@), !.pwClosed = TRUE]
       ELSE /\ s3pc' = "open"
            /\ UNCHANGED <<s3err, s3bw>>
    /\ UNCHANGED <<urlPrefixPath, outputName, allowOverwrite, objects, headResp, key,
                   tasks, uploads, s3written, s3returned>>
    /\ UNCHANGED notS3Vars

\* A construction that returns the error without waiting for the worker.
BwCloseWaitNoWait ==
    /\ s3pc = "closing"
    /\ s3bw' = [s3bw EXCEPT !.errCh = ErrRest(@)]
    /\ s3pc' = "failed"
    /\ UNCHANGED <<urlPrefixPath, outputName, allowOverwrite, objects, s3err, headResp,
                   key, tasks, uploads, s3written, s3returned>>
    /\ UNCHANGED notS3Vars

\* w.Close() inside newBackgroundWriter: w.wg.Wait() returns once the worker has
\* returned, Close takes w.Err(), its result is dropped, and newBackgroundWriter
\* returns the error of the poll.
BwCloseWait ==
    /\ s3pc = "closing"
    /\ s3bw.worker = "exited"
    /\ s3bw' = [s3bw EXCEPT !.errCh = ErrRest(@)]
    /\ s3pc' = "failed"
    /\ UNCHANGED <<urlPrefixPath, outputName, allowOverwrite, objects, s3err, headResp,
                   key, tasks, uploads, s3written, s3returned>>
    /\ UNCHANGED notS3Vars

\* One call of Write(p) on the writer newBackgroundWriter returned.
BwWriteCall ==
    /\ s3pc = "open"
    /\ Len(s3written) < MaxS3Input
    /\ \E p \in SeqsUpTo(TeeBytes, MaxS3Input - Len(s3written)) \ {<<>>} :
         LET r == bwWrite(1, s3bw, p)
         IN /\ s3bw' = r.st
            /\ s3written' = s3written \o p
            /\ s3returned' = IF r.err = Nil THEN s3returned ELSE Append(s3returned, r.err)
    /\ UNCHANGED <<urlPrefixPath, outputName, allowOverwrite, objects, s3pc, s3err,
                   headResp, key, tasks, uploads>>
    /\ UNCHANGED notS3Vars

\* One call of Close() on the writer newBackgroundWriter returned.
BwCloseCall ==
    /\ s3pc = "open"
    /\ \E workerFails \in BOOLEAN :
         /\ workerFails => s3bw.worker = "running" /\ Len(s3bw.errCh) < MaxFails
         /\ LET r == bwClose(1, s3bw, workerFails)
            IN /\ s3bw' = r.st
               /\ s3returned' = IF r.err = Nil THEN s3returned
                                ELSE Append(s3returned, r.err)
    /\ s3pc' = "closed"
    /\ UNCHANGED <<urlPrefixPath, outputName, allowOverwrite, objects, s3err, headResp,
                   key, tasks, uploads, s3written>>
    /\ UNCHANGED notS3Vars

\* newBackgroundWriter is about to be called, with a worker function or with nil.
InitNew ==
    /\ NoConfig
    /\ NoTeeReader
    /\ NoLogWriter
    /\ urlPrefixPath = <<>> /\ outputName = <<>> /\ allowOverwrite = FALSE
    /\ objects = {} /\ headResp = NoHead /\ key = <<>> /\ uploads = <<>>
    /\ s3pc = "new" /\ s3err = Nil /\ tasks = 0
    /\ \E w \in {"nil", "none"} :
         s3bw = [given |-> <<>>, errCh |-> <<>>, worker |-> w, pwClosed |-> FALSE]
    /\ s3written = <<>> /\ s3returned = <<>>

NextNew ==
    \/ NewBackgroundWriter
    \/ BwWorkerReport
    \/ BwWorkerExit
    \/ BwPoll
    \/ BwCloseWait
    \/ BwWriteCall
    \/ BwCloseCall

SpecNew == InitNew /\ [][NextNew]_vars

(* ============ AWSTee.TeeReader: both destinations together ============ *)

\* The input of the end-to-end scenario, and the sources of SpecE2E: its prefixes.
ScenarioInput == <<"a", NL, "b", NL>>
E2ESources ==
    {SubSeq(ScenarioInput, 1, k) : k \in 0..Min(MaxInput, Len(ScenarioInput))}

\* io.TeeReader hands the bytes p[:n] it has read to the writer.
ForwardedFirstByte(p) == SubSeq(p, 1, 1)

Forwarded(p) == p

\* func (t *AWSTeeReader) Read(p) up to its blocking point. At end of the source,
\* or once isClosed, it returns io.EOF. Else n bytes are read and written to the
\* MultiWriter: first to the s3Writer (the pipe hands them to Upload), and if that
\* Write returned nil, to the cloudwatchLogsWriter, whose pw.Write blocks until
\* the line-splitting task has read them. An error of the s3Writer, or a closed
\* pipe of the cloudwatchLogsWriter, ends the Read with that error.
E2ERead ==
    /\ tpc = "idle" /\ ppc \in {"idle", "closed"}
    /\ fpc # "panic"
    /\ \E n \in 1..MaxChunk :
         /\ n <= Len(source) - rpos \/ n = 1
         /\ IF isClosed \/ rpos = Len(source)
            THEN /\ lastRead' = [n |-> 0, err |-> EOF, afterClose |-> isClosed, fwd |-> 0]
                 /\ sawEOF' = (sawEOF \/ ~isClosed)
                 /\ UNCHANGED <<rpos, consumed, readFailed, tpc, s3bw, s3written,
                                s3returned, pipe, written, ppc, returned>>
            ELSE LET p == SubSeq(source, rpos + 1, rpos + n)
                     r == bwWrite(1, s3bw, Forwarded(p))
                     cwShut == cwPwClosed \/ cwWorker = "exited"
                     err == IF r.err # Nil THEN r.err ELSE ErrClosedPipe(2)
                 IN /\ s3bw.worker # "started"
                    /\ rpos' = rpos + n
                    /\ s3bw' = r.st
                    /\ s3written' = s3written \o Forwarded(p)
                    /\ s3returned' = IF r.err = Nil THEN s3returned
                                     ELSE Append(s3returned, r.err)
                    /\ IF r.err # Nil \/ cwShut
                       THEN /\ consumed' = consumed \o p
                            /\ lastRead' = [n |-> n, err |-> err, afterClose |-> FALSE,
                                            fwd |-> IF r.err # Nil THEN 1 ELSE 2]
                            /\ readFailed' = TRUE
                            /\ returned' = IF r.err = Nil THEN Append(returned, err)
                                           ELSE returned
                            /\ UNCHANGED <<tpc, pipe, written, ppc, sawEOF>>
                       ELSE /\ pipe' = Forwarded(p)
                            /\ written' = written \o Forwarded(p)
                            /\ ppc' = "write"
                            /\ tpc' = "reading"
                            /\ UNCHANGED <<consumed, lastRead, readFailed, returned, sawEOF>>
    /\ UNCHANGED <<source, isClosed, closeDone, closeRes, egErr, closeRet, teeCloses, bwVars,
                   prepVars, cfg>>
    /\ UNCHANGED <<bufferLines, initToken, cwPwClosed, cancelled, cwErrCh, cwWorker, sbuf,
                   spc, cur, fpc, events, sequenceToken, calls, putFails>>
    /\ UNCHANGED <<urlPrefixPath, outputName, allowOverwrite, objects, s3pc, s3err,
                   headResp, key, tasks, uploads>>

\* The blocked pw.Write of the cloudwatchLogsWriter returned, its Write returns
\* w.Err(), and Read returns the bytes with that error.
E2EReadReturn ==
    /\ tpc = "reading" /\ ppc = "write"
    /\ fpc # "panic"
    /\ pipe = <<>>
    /\ LET err == Err(cwErrCh)
           n == rpos - Len(consumed)
       IN /\ returned' = IF err # Nil THEN Append(returned, err) ELSE returned
          /\ cwErrCh' = ErrRest(cwErrCh)
          /\ consumed' = SubSeq(source, 1, rpos)
          /\ lastRead' = [n |-> n, err |-> err, afterClose |-> FALSE, fwd |-> 2]
          /\ readFailed' = (readFailed \/ err # Nil)
    /\ ppc' = "idle"
    /\ tpc' = "idle"
    /\ UNCHANGED <<source, rpos, isClosed, closeDone, closeRes, egErr, closeRet, teeCloses,
                   sawEOF, bwVars, s3Vars, prepVars, cfg>>
    /\ UNCHANGED <<bufferLines, initToken, written, pipe, cwPwClosed, cancelled, cwWorker,
                   sbuf, spc, cur, fpc, events, sequenceToken, calls, putFails>>

\* func (t *AWSTeeReader) Close(), first part: eg.Go(w.Close) for both writers.
E2ECloseStart ==
    /\ tpc = "idle" /\ ppc = "idle" /\ s3pc = "open"
    /\ fpc # "panic"
    /\ tpc' = "closing"
    /\ egErr' = Nil
    /\ UNCHANGED <<source, rpos, consumed, isClosed, closeDone, closeRes, closeRet,
                   teeCloses, lastRead, readFailed, sawEOF, bwVars, cwVars, s3Vars,
                   prepVars, cfg>>

\* The goroutine of the errgroup that closes the s3Writer.
E2ES3Close ==
    /\ tpc = "closing"
    /\ S3Close

\* The goroutine of the errgroup that closes the cloudwatchLogsWriter starts.
E2ECwClose ==
    /\ tpc = "closing"
    /\ CwClose

\* func (t *AWSTeeReader) Close(), second part: eg.Wait() returns once both closes
\* have returned, with the error of one that failed; t.isClosed = true.
E2ECloseReturn ==
    /\ tpc = "closing"
    /\ s3pc = "closed" /\ ppc = "closed"
    /\ isClosed' = TRUE
    /\ teeCloses' = teeCloses + 1
    /\ tpc' = "idle"
    /\ UNCHANGED <<source, rpos, consumed, closeDone, closeRes, egErr, closeRet, lastRead,
                   readFailed, sawEOF, bwVars, cwVars, s3Vars, prepVars, cfg>>

\* AWSTee.TeeReader returned a reader over an s3Writer and a cloudwatchLogsWriter,
\* in that order: the object is not there, the stream is prepared.
InitE2E ==
    /\ NoConfig
    /\ source \in E2ESources
    /\ rpos = 0 /\ consumed = <<>> /\ isClosed = FALSE /\ tpc = "idle"
    /\ closeDone = [i \in Writers |-> FALSE]
    /\ closeRes = [i \in Writers |-> Nil]
    /\ egErr = Nil /\ closeRet = Nil /\ teeCloses = 0
    /\ lastRead = [n |-> 0, err |-> Nil, afterClose |-> FALSE, fwd |-> 0]
    /\ readFailed = FALSE /\ sawEOF = FALSE
    /\ given = [i \in Writers |-> <<>>]
    /\ errCh = [i \in Writers |-> <<>>]
    /\ worker = [i \in Writers |-> "exited"]
    /\ pwClosed = [i \in Writers |-> TRUE]
    /\ closeCalls = [i \in Writers |-> 0]
    /\ writeCalls = [i \in Writers |-> 0]
    /\ fails = 0 /\ everFailed = {}
    /\ urlPrefixPath = <<"/">> /\ outputName = <<"o">> /\ allowOverwrite = FALSE
    /\ objects = {} /\ s3pc = "open" /\ s3err = Nil
    /\ headResp = [kind |-> "api", code |-> "NotFound"]
    /\ key = S3Key(urlPrefixPath, outputName) /\ tasks = 1 /\ uploads = <<>>
    /\ s3bw = [given |-> <<>>, errCh |-> <<>>, worker |-> "started", pwClosed |-> FALSE]
    /\ s3written = <<>> /\ s3returned = <<>>
    /\ bufferLines \in {MaxBufferLines, DefaultBufferLines}
    /\ initToken \in {NoToken, 1}
    /\ sequenceToken = initToken
    /\ ppc = "idle" /\ written = <<>> /\ returned = <<>>
    /\ pipe = <<>> /\ cwPwClosed = FALSE /\ cancelled = FALSE
    /\ cwErrCh = <<>> /\ cwWorker = "running"
    /\ sbuf = <<>> /\ spc = "scan" /\ cur = <<>>
    /\ fpc = "select" /\ events = <<>>
    /\ calls = <<>> /\ putFails = 0
    /\ Prepared

NextE2E ==
    \/ E2ERead
    \/ E2EReadReturn
    \/ E2ECloseStart
    \/ E2ES3Close
    \/ E2ECwClose
    \/ CwCloseCancel
    \/ CwCloseReturn
    \/ E2ECloseReturn
    \/ UploadStart
    \/ UploadFail
    \/ SplitterScan
    \/ LoopRecv
    \/ LoopTick
    \/ LoopDone
    \/ PutReturnInLoop
    \/ Drain
    \/ PutReturnFinal
    \/ WorkerReturn

SpecE2E == InitE2E /\ [][NextE2E]_vars

(* ========================== Config.Restrict =========================== *)

\* The symbols of a url_prefix: the runs of letters and digits "s3" and "b", the
\* colon, the slash, and "%" standing for a percent sign that begins no escape.
UrlSyms == {"s3", "b", ":", "/", "%"}
Letters == {"s3", "b", "logs"}

\* The url_prefix of TestS3WriterPutObject.
TestUrl == <<"s3", ":", "/", "/", "b", "/", "logs", "/">>
UrlPrefixes == (SeqsUpTo(UrlSyms, MaxUrl) \ {<<>>}) \cup {TestUrl}

\* index of the first x in s, or 0
IndexOf(s, x) ==
    IF \E i \in 1..Len(s) : s[i] = x
    THEN CHOOSE i \in 1..Len(s) : s[i] = x /\ \A j \in 1..(i - 1) : s[j] # x
    ELSE 0

Has(s, x) == IndexOf(s, x) > 0

\* net/url getScheme: the letters before the first colon, if only letters come
\* before it; no scheme if another symbol comes first or there is no colon; an
\* error if the colon comes first.
GetScheme(raw) ==
    LET stop == IF \E i \in 1..Len(raw) : raw[i] \notin Letters
                THEN CHOOSE i \in 1..Len(raw) :
                         raw[i] \notin Letters /\ \A j \in 1..(i - 1) : raw[j] \in Letters
                ELSE 0
    IN IF stop = 0 \/ raw[stop] # ":"
       THEN [err |-> "nil", scheme |-> <<>>, rest |-> raw]
       ELSE IF stop = 1
       THEN [err |-> "missing protocol scheme", scheme |-> <<>>, rest |-> raw]
       ELSE [err |-> "nil", scheme |-> SubSeq(raw, 1, stop - 1),
             rest |-> SubSeq(raw, stop + 1, Len(raw))]

\* net/url parseHost, for an authority without userinfo: no bad escape, and only
\* digits after the last colon.
HostErr(host) ==
    IF Has(host, "%") THEN "invalid URL escape"
    ELSE IF \E i \in 1..Len(host) : host[i] = ":" /\ i < Len(host)
                                      /\ \A j \in (i + 1)..Len(host) : host[j] # ":"
    THEN "invalid port"
    ELSE "nil"

\* url.Parse(raw) for a raw without "#" and "?": the scheme; then an opaque rest, if
\* it follows a scheme and begins with no slash; else the authority after "//" and
\* the path, unescaped.
UrlParse(raw) ==
    LET g == GetScheme(raw)
        rest == g.rest
        rooted == rest # <<>> /\ rest[1] = "/"
        hasAuth == Len(rest) >= 2 /\ rest[1] = "/" /\ rest[2] = "/"
                   /\ (g.scheme # <<>> \/ ~(Len(rest) >= 3 /\ rest[3] = "/"))
        afterAuth == SubSeq(rest, 3, Len(rest))
        cut == IndexOf(afterAuth, "/")
        host == IF cut = 0 THEN afterAuth ELSE SubSeq(afterAuth, 1, cut - 1)
        path == IF ~hasAuth THEN rest
                ELSE IF cut = 0 THEN <<>> ELSE SubSeq(afterAuth, cut, Len(afterAuth))
        firstSeg == IF IndexOf(rest, "/") = 0 THEN rest
                    ELSE SubSeq(rest, 1, IndexOf(rest, "/") - 1)
    IN IF g.err # "nil" THEN [NoUrl EXCEPT !.err = g.err]
       ELSE IF ~rooted /\ g.scheme # <<>>
       THEN [NoUrl EXCEPT !.scheme = g.scheme, !.opaque = rest]
       ELSE IF ~rooted /\ Has(firstSeg, ":")
       THEN [NoUrl EXCEPT !.err = "first path segment in URL cannot contain colon"]
       ELSE IF hasAuth /\ HostErr(host) # "nil"
       THEN [NoUrl EXCEPT !.err = HostErr(host)]
       ELSE IF Has(path, "%")
       THEN [NoUrl EXCEPT !.err = "invalid URL escape"]
       ELSE [NoUrl EXCEPT !.scheme = g.scheme, !.path = path,
                          !.host = IF hasAuth THEN host ELSE <<>>]

\* required_version: gv.NewConstraint accepts it or not
RequiredVersions == {"", ">=1", "x"}
VersionOk(v) == v = ">=1"

\* flush_interval, and time.ParseDuration in milliseconds
FlushIntervals == {"", "1ms", "5s", "x"}
ParseDuration(f) ==
    IF f = "1ms" THEN [ok |-> TRUE, d |-> 1]
    ELSE IF f = "5s" THEN [ok |-> TRUE, d |-> 5000]
    ELSE [ok |-> FALSE, d |-> 0]

\* the errors of Restrict
VersionErr == [kind |-> "required_version has invalid format", scheme |-> <<>>]
UrlFormatErr == [kind |-> "s3 url_prefix is invalid format", scheme |-> <<>>]
SchemaErr(scheme) == [kind |-> "s3 url_prefix schema is not s3", scheme |-> scheme]
FlushIntervalErr == [kind |-> "cloudwatch flush_interval is invalid format", scheme |-> <<>>]
LogGroupErr == [kind |-> "cloudwatch log_group is required", scheme |-> <<>>]

\* Any scheme will do.
SchemeOkAny(scheme) == TRUE

\* u.Scheme != "s3"
SchemeOk(scheme) == scheme = <<"s3">>

\* func (cfg *Config) EnableS3(), EnableCloudwatchLogs()
EnableS3(c) == c.S3 /\ c.URLPrefix # <<>>
EnableCloudwatchLogs(c) == c.Cloudwatch /\ c.LogGroup # ""

\* func (cfg *S3Config) Restrict()
S3Restrict(c) ==
    LET u == UrlParse(c.URLPrefix)
    IN IF u.err # "nil" THEN [cfg |-> c, err |-> UrlFormatErr]
       ELSE IF ~SchemeOk(u.scheme) THEN [cfg |-> c, err |-> SchemaErr(u.scheme)]
       ELSE [cfg |-> [c EXCEPT !.urlPrefix = [set |-> TRUE, url |-> u]], err |-> NoErr]

\* func (cfg *CloudwatchLogsConfig) Restrict()
CloudwatchRestrict(c) ==
    LET d == ParseDuration(c.FlushInterval)
        c1 == [c EXCEPT !.flushInterval =
                  IF c.FlushInterval = "" THEN DefaultFlushInterval ELSE d.d]
    IN IF c.LogGroup = "" THEN [cfg |-> c, err |-> LogGroupErr]
       ELSE IF c.FlushInterval # "" /\ ~d.ok THEN [cfg |-> c1, err |-> FlushIntervalErr]
       ELSE [cfg |-> [c1 EXCEPT !.BufferLines =
                         IF c.BufferLines = 0 THEN DefaultBufferLines ELSE c.BufferLines],
             err |-> NoErr]

\* func (cfg *Config) Restrict()
ConfigRestrict(c) ==
    LET a == IF EnableS3(c) THEN S3Restrict(c) ELSE [cfg |-> c, err |-> NoErr]
        b == IF EnableCloudwatchLogs(a.cfg) THEN CloudwatchRestrict(a.cfg)
             ELSE [cfg |-> a.cfg, err |-> NoErr]
    IN IF c.RequiredVersion # "" /\ ~VersionOk(c.RequiredVersion)
       THEN [cfg |-> c, err |-> VersionErr]
       ELSE IF a.err # NoErr THEN a
       ELSE b

\* One call of cfg.Restrict() on the loaded configuration.
Restrict ==
    /\ cfg.pc = "loaded"
    /\ LET r == ConfigRestrict(cfg.now)
       IN cfg' = [cfg EXCEPT !.pc = "restricted", !.now = r.cfg, !.err = r.err]
    /\ UNCHANGED <<teeVars, bwVars, cwVars, s3Vars, prepVars>>

\* The configurations the loader can hand to Restrict.
LoadedConfigs ==
    [RequiredVersion : RequiredVersions,
     S3 : BOOLEAN, URLPrefix : UrlPrefixes \cup {<<>>},
     urlPrefix : {[set |-> FALSE, url |-> NoUrl]},
     Cloudwatch : BOOLEAN, LogGroup : {"", "g"},
     FlushInterval : FlushIntervals, BufferLines : (-1)..MaxBufferLines,
     flushInterval : {0}]

InitCfg ==
    /\ NoTeeReader
    /\ NoLogWriter
    /\ NoS3Writer
    /\ \E c \in LoadedConfigs :
         /\ (~c.S3 => c.URLPrefix = <<>>)
         /\ (~c.Cloudwatch => c.LogGroup = "" /\ c.FlushInterval = "" /\ c.BufferLines = 0)
         /\ cfg = [pc |-> "loaded", err |-> NoErr, loaded |-> c, now |-> c]

NextCfg == Restrict

SpecCfg == InitCfg /\ [][NextCfg]_vars

(* ======== cloudwatchLogsWriter under an accepted configuration ======== *)

\* The values of cfg.BufferLines after a Restrict that returned nil, for a
\* configuration with the log destination only.
AcceptedBufferLines ==
    {ConfigRestrict(c).cfg.BufferLines :
        c \in {d \in LoadedConfigs : /\ ~d.S3 /\ d.URLPrefix = <<>>
                                     /\ EnableCloudwatchLogs(d)
                                     /\ ConfigRestrict(d).err = NoErr}}

\* What the caller writes: a line, or a line without its newline.
BatchChunks == {<<"a", NL>>, <<"a">>}

BatchWrite == CwWriteOf(BatchChunks)

\* Batching/flush task, case line, ok := <-lines with lines closed: ok is false,
\* nothing is appended, and the batch is put if len(events) >= cfg.BufferLines.
LoopRecvClosed ==
    /\ fpc = "select"
    /\ spc = "done"
    /\ BatchFull(Len(events))
    /\ Len(calls) < MaxInput
    /\ PutLogEvents(events, "size")
    /\ UNCHANGED <<notLogVars, bufferLines, initToken, ppc, written, returned, pipe,
                   cwPwClosed, cancelled, cwErrCh, cwWorker, sbuf, spc, cur, events,
                   sequenceToken, putFails>>

\* newCloudWatchLogsWriter returned a writer built from a configuration that
\* Restrict accepted.
InitBatch ==
    /\ NoConfig
    /\ NoTeeReader
    /\ NoS3Writer
    /\ bufferLines \in AcceptedBufferLines
    /\ initToken = NoToken
    /\ sequenceToken = initToken
    /\ ppc = "idle" /\ written = <<>> /\ returned = <<>>
    /\ pipe = <<>> /\ cwPwClosed = FALSE /\ cancelled = FALSE
    /\ cwErrCh = <<>> /\ cwWorker = "running"
    /\ sbuf = <<>> /\ spc = "scan" /\ cur = <<>>
    /\ fpc = "select" /\ events = <<>>
    /\ calls = <<>> /\ putFails = 0
    /\ Prepared

NextBatch ==
    \/ BatchWrite
    \/ CwWriteReturn
    \/ CwClose
    \/ CwCloseCancel
    \/ CwCloseReturn
    \/ SplitterScan
    \/ LoopRecv
    \/ LoopRecvClosed
    \/ LoopTick
    \/ LoopDone
    \/ PutReturnInLoop
    \/ Drain
    \/ PutReturnFinal
    \/ WorkerReturn

SpecBatch == InitBatch /\ [][NextBatch]_vars

(* ========================= AWSTee.TeeReader =========================== *)

\* The configurations of the application: accepted by Restrict, with the
\* url_prefix of the tests or none, and the defaults of the log destination.
SetupConfigs ==
    {d \in LoadedConfigs : /\ d.RequiredVersion = ""
                           /\ d.URLPrefix \in {<<>>, TestUrl}
                           /\ (~d.S3 => d.URLPrefix = <<>>)
                           /\ (~d.Cloudwatch => d.LogGroup = "")
                           /\ d.FlushInterval = "" /\ d.BufferLines = 0
                           /\ ConfigRestrict(d).err = NoErr}

\* if app.cfg.EnableS3() { w, err := newS3Writer(...) ... }
SetupS3 ==
    /\ tpc = "new"
    /\ EnableS3(cfg.now)
    /\ NewS3Writer

\* if app.cfg.EnableCloudwatchLogs() { w, err := newCloudWatchLogsWriter(...) ... },
\* reached once the object destination, if enabled, is constructed.
SetupCw ==
    /\ tpc = "new"
    /\ EnableS3(cfg.now) => s3pc = "open"
    /\ EnableCloudwatchLogs(cfg.now)
    /\ NewCloudWatchLogsWriter

\* TeeReader fails: a constructor returned an error, or no destination is enabled.
SetupFails ==
    \/ EnableS3(cfg.now) /\ s3pc = "failed"
    \/ EnableCloudwatchLogs(cfg.now) /\ ppc = "failed"
    \/ ~EnableS3(cfg.now) /\ ~EnableCloudwatchLogs(cfg.now)

\* TeeReader returns: the error of the first constructor that failed, "no
\* destination", or the AWSTeeReader over the writers built.
TeeReaderReturn ==
    /\ tpc = "new"
    /\ \/ EnableS3(cfg.now) /\ s3pc = "failed"
       \/ /\ EnableS3(cfg.now) => s3pc = "open"
          /\ EnableCloudwatchLogs(cfg.now) => ppc \in {"idle", "failed"}
    /\ tpc' = IF SetupFails THEN "failed" ELSE "idle"
    /\ isClosed' = IF SetupFails THEN isClosed ELSE FALSE
    /\ UNCHANGED <<source, rpos, consumed, closeDone, closeRes, egErr, closeRet,
                   teeCloses, lastRead, readFailed, sawEOF, bwVars, cwVars, s3Vars,
                   prepVars, cfg>>

\* The application has loaded its configuration; TeeReader is called.
InitSetup ==
    /\ \E c \in SetupConfigs :
         cfg = [pc |-> "restricted", err |-> NoErr, loaded |-> c,
                now |-> ConfigRestrict(c).cfg]
    /\ source = <<>> /\ rpos = 0 /\ consumed = <<>> /\ isClosed = TRUE /\ tpc = "new"
    /\ closeDone = [i \in Writers |-> FALSE]
    /\ closeRes = [i \in Writers |-> Nil]
    /\ egErr = Nil /\ closeRet = Nil /\ teeCloses = 0
    /\ lastRead = [n |-> 0, err |-> Nil, afterClose |-> FALSE, fwd |-> 0]
    /\ readFailed = FALSE /\ sawEOF = FALSE
    /\ given = [i \in Writers |-> <<>>]
    /\ errCh = [i \in Writers |-> <<>>]
    /\ worker = [i \in Writers |-> "exited"]
    /\ pwClosed = [i \in Writers |-> TRUE]
    /\ closeCalls = [i \in Writers |-> 0]
    /\ writeCalls = [i \in Writers |-> 0]
    /\ fails = 0 /\ everFailed = {}
    /\ urlPrefixPath = cfg.now.urlPrefix.url.path
    /\ outputName = PrepOutputName
    /\ allowOverwrite \in BOOLEAN
    /\ objects \in SUBSET {S3Key(urlPrefixPath, outputName)}
    /\ s3pc = "new" /\ s3err = Nil /\ headResp = NoHead
    /\ key = <<>> /\ tasks = 0 /\ uploads = <<>>
    /\ s3bw = [given |-> <<>>, errCh |-> <<>>, worker |-> "none", pwClosed |-> FALSE]
    /\ s3written = <<>> /\ s3returned = <<>>
    /\ createLogGroup \in BOOLEAN
    /\ describeResp = NoDescribe /\ prepCalls = <<>> /\ prepErr = Nil /\ logStream = <<>>
    /\ bufferLines = IF EnableCloudwatchLogs(cfg.now) THEN cfg.now.BufferLines ELSE 1
    /\ initToken = NoToken /\ sequenceToken = NoToken
    /\ ppc = "new" /\ written = <<>> /\ returned = <<>>
    /\ pipe = <<>> /\ cwPwClosed = FALSE /\ cancelled = FALSE
    /\ cwErrCh = <<>> /\ cwWorker = "none"
    /\ sbuf = <<>> /\ spc = "none" /\ cur = <<>>
    /\ fpc = "none" /\ events = <<>>
    /\ calls = <<>> /\ putFails = 0

NextSetup ==
    \/ SetupS3
    \/ SetupCw
    \/ TeeReaderReturn
    \/ UploadStart

SpecSetup == InitSetup /\ [][NextSetup]_vars

(* ============================== claims ================================ *)

\* C1 (fan-out fidelity): once the consumer has read the open AWSTeeReader to
\* end-of-stream, Close has returned and no Read returned a writer's error, the
\* consumer holds exactly the source bytes and every writer was given exactly the
\* source bytes, in order.
C1_FanOutFidelity ==
    (sawEOF /\ teeCloses >= 1 /\ tpc = "idle" /\ ~readFailed) =>
        /\ consumed = source
        /\ \A i \in Writers : given[i] = source

\* C1 witness: a full-length source ending in two newlines was read to the end
\* and the reader closed, every write having succeeded.
C1_Witness ==
    /\ sawEOF /\ teeCloses >= 1 /\ tpc = "idle" /\ ~readFailed
    /\ Len(source) = MaxSrc
    /\ source[MaxSrc] = NL /\ source[MaxSrc - 1] = NL
    /\ \A i \in Writers : given[i] = source /\ writeCalls[i] >= 2

\* C3 (read after close): a Read called with isClosed set returns 0 bytes and
\* io.EOF and calls Write on no writer.
C3_ReadAfterClose ==
    lastRead.afterClose =>
        /\ lastRead.n = 0
        /\ lastRead.err = EOF
        /\ lastRead.fwd = 0

\* C3 witness: Close returned an error, the source still has unread bytes, and a
\* Read was made after it.
C3_Witness ==
    /\ lastRead.afterClose
    /\ closeRet # Nil
    /\ rpos < Len(source)

\* C4 (best-effort fan-out close): when a call of AWSTeeReader.Close has returned,
\* every writer's Close has returned, each writer was closed once per call, and the
\* result is nil exactly if every writer's Close returned nil, and otherwise one of
\* the errors the writers' Close calls returned.
C4_BestEffortClose ==
    (tpc = "idle" /\ teeCloses >= 1) =>
        /\ \A i \in Writers : closeDone[i] /\ closeCalls[i] = teeCloses
        /\ (closeRet = Nil) <=> (\A i \in Writers : closeRes[i] = Nil)
        /\ closeRet # Nil => \E i \in Writers : closeRes[i] = closeRet

\* C4 witness: the first Close has returned, the first writer's Close failed and
\* the last writer's Close was still made and returned nil.
C4_Witness ==
    /\ tpc = "idle" /\ teeCloses = 1
    /\ closeRes[1] # Nil
    /\ closeRes[NWriters] = Nil /\ closeCalls[NWriters] = 1
    /\ closeRet = closeRes[1]

\* C5 (close idempotence), as claimed: no writer's Close is called a second time,
\* however often AWSTeeReader.Close is called.
C5_CloseIdempotent ==
    \A i \in Writers : closeCalls[i] <= 1

\* C8 (transfer-error isolation), as claimed: no Read returns an error that comes
\* from a destination, and at every Read boundary a writer whose worker never
\* failed has been given every byte the consumer has.
C8_TransferErrorIsolation ==
    /\ lastRead.err \in {Nil, EOF}
    /\ \A i \in Writers \ everFailed : given[i] = consumed

(* ---------------- reference functions for the log claims --------------- *)

\* The segments of data between newlines, the unterminated last one included.
RECURSIVE SplitNL(_)
SplitNL(data) ==
    IF data = <<>> THEN <<>>
    ELSE IF \A i \in 1..Len(data) : data[i] # NL THEN <<data>>
    ELSE LET i == CHOOSE k \in 1..Len(data) :
                      data[k] = NL /\ \A j \in 1..(k - 1) : data[j] # NL
         IN <<SubSeq(data, 1, i - 1)>> \o SplitNL(SubSeq(data, i + 1, Len(data)))

IsNonEmpty(l) == l # <<>>

\* The non-empty newline-delimited lines of data.
LitLines(data) == SelectSeq(SplitNL(data), IsNonEmpty)

\* A line without its trailing carriage return, if it has one.
StripCR(l) ==
    IF l # <<>> /\ l[Len(l)] = CR THEN SubSeq(l, 1, Len(l) - 1) ELSE l

\* The newline-delimited lines of data, each without its trailing carriage return,
\* those that are then empty left out.
Records(data) ==
    SelectSeq([k \in 1..Len(SplitNL(data)) |-> StripCR(SplitNL(data)[k])], IsNonEmpty)

\* data up to and including its last newline.
Terminated(data) ==
    LET nls == {i \in 1..Len(data) : data[i] = NL}
    IN IF nls = {} THEN <<>>
       ELSE SubSeq(data, 1, CHOOSE i \in nls : \A j \in nls : j <= i)

\* The events of the calls c[1..n], concatenated in call order.
RECURSIVE Delivered(_, _)
Delivered(c, n) == IF n = 0 THEN <<>> ELSE Delivered(c, n - 1) \o c[n].events

AllPutsOk == \A j \in 1..Len(calls) : calls[j].done /\ calls[j].ok

\* Both tasks of the worker are at rest: nothing written is still on its way to
\* the batch.
Quiescent ==
    /\ pipe = <<>>
    /\ spc = "scan" /\ ~ScanLines(sbuf, AtEOF).has
    /\ fpc = "select"

NoTimerNoClose ==
    /\ \A j \in 1..Len(calls) : calls[j].kind # "timer"
    /\ ppc \in {"idle", "write"}

(* --------------------------- log claims -------------------------------- *)

\* C2 (exactly-once, in-order delivery), as claimed: once Close has returned and
\* every append succeeded, the events of all append calls, in call order, are the
\* non-empty newline-delimited lines of the input.
C2_DeliveryLiteral ==
    (ppc = "closed" /\ AllPutsOk) => Delivered(calls, Len(calls)) = LitLines(written)

\* C2, amended: once Close has returned and every append succeeded, the events of
\* all append calls, in call order, are the newline-delimited lines of the input,
\* each without one trailing carriage return, those that are then empty left out.
C2_Delivery ==
    (ppc = "closed" /\ AllPutsOk) => Delivered(calls, Len(calls)) = Records(written)

\* C2 witness: the writer is closed after an input of two lines, the last one not
\* ended by a newline; a flush in the loop and the final drain delivered them.
C2_Witness ==
    /\ ppc = "closed" /\ AllPutsOk
    /\ written # <<>> /\ written[Len(written)] \notin {NL, CR}
    /\ Len(Records(written)) = 2
    /\ Len(calls) = 2 /\ calls[2].kind = "final"

C7_TokenThreading ==
    \A j \in 1..Len(calls) :
        IF j = 1 THEN calls[j].token = initToken
        ELSE calls[j - 1].ok => calls[j].token = calls[j - 1].next

\* C7 witness: a timer flush returned a new token and the final drain carried it.
C7_Witness ==
    /\ Len(calls) = 2
    /\ calls[1].kind = "timer" /\ calls[1].ok
    /\ calls[1].next \notin {NoToken, initToken}
    /\ calls[2].kind = "final" /\ calls[2].token = calls[1].next

IsPrefix(a, b) == Len(a) <= Len(b) /\ SubSeq(b, 1, Len(a)) = a

\* C9 (a failed flush keeps the batch), as claimed: after an append call of the
\* select loop failed, the worker keeps running and the events of that call are
\* still the head of the batch, and of the next append call.
C9_FailedFlushKeepsBatch ==
    \A j \in 1..Len(calls) :
        (calls[j].done /\ ~calls[j].ok /\ calls[j].kind # "final") =>
            /\ fpc # "panic"
            /\ IF j = Len(calls) THEN IsPrefix(calls[j].events, events)
               ELSE IsPrefix(calls[j].events, calls[j + 1].events)

\* C11 (no asynchronous error is swallowed), as claimed: once Close has returned,
\* the error of every failed append call has been returned to the caller by a
\* Write or by Close.
C11_NoErrorSwallowed ==
    ppc = "closed" =>
        \A j \in 1..Len(calls) :
            (calls[j].done /\ ~calls[j].ok) =>
                \E k \in 1..Len(returned) : returned[k] = PutErr(j)

\* C12 (end-to-end scenario): with the source "a\nb\n", cfg.BufferLines = 50, a
\* prepared stream without token and no tick taken with a batch, no append call is
\* made before Close; a consumer that read to end-of-stream holds "a\nb\n"; and
\* once Close has returned, no call having failed, the one Upload call got exactly
\* "a\nb\n" and the one append call carries "a" then "b" without token.
C12_Scenario ==
    /\ source = ScenarioInput
    /\ bufferLines = DefaultBufferLines
    /\ initToken = NoToken
    /\ \A j \in 1..Len(calls) : calls[j].kind # "timer"

C12_EndToEnd ==
    C12_Scenario =>
        /\ (teeCloses = 0 /\ tpc # "closing") => calls = <<>>
        /\ (sawEOF /\ ~readFailed) => consumed = source
        /\ (sawEOF /\ ~readFailed /\ teeCloses = 1 /\ tpc = "idle" /\ AllPutsOk
               /\ \A u \in 1..Len(uploads) : uploads[u].ok) =>
              /\ Len(uploads) = 1 /\ uploads[1].body = source
              /\ Len(calls) = 1
              /\ calls[1].events = << <<"a">>, <<"b">> >>
              /\ calls[1].token = NoToken

\* C12 witness: the scenario has run to its end.
C12_Witness ==
    /\ C12_Scenario
    /\ sawEOF /\ ~readFailed /\ teeCloses = 1 /\ tpc = "idle" /\ AllPutsOk
    /\ Len(uploads) = 1 /\ uploads[1].ok /\ uploads[1].body = source
    /\ Len(calls) = 1 /\ calls[1].kind = "final"

\* C13 (existing-stream preparation): when DescribeLogStreams succeeded, then if a
\* returned stream has exactly the resolved name, no create call is made, the
\* writer is built with that stream's token (absent if it has none) and the first
\* append call carries it; if none has, whatever names begin with it, the stream
\* is created and the token is absent.
C13_ExistingStream ==
    (ppc # "new" /\ describeResp.err = "nil") =>
        LET out == describeResp.out
            named == {i \in 1..Len(out) : out[i].name = TargetStream}
        IN IF named # {}
           THEN /\ prepCalls = <<"DescribeLogStreams">>
                /\ prepErr = Nil /\ ppc \notin {"failed", "panicked"}
                /\ \A i \in named : initToken = out[i].token
                /\ calls # <<>> => calls[1].token = initToken
           ELSE /\ prepCalls = <<"DescribeLogStreams", "CreateLogStream">>
                /\ prepErr = Nil =>
                      /\ ppc \notin {"failed", "panicked"}
                      /\ initToken = NoToken
                      /\ calls # <<>> => calls[1].token = NoToken

\* C13 witness: the target stream came second, after a stream whose name begins
\* with the target's; its token was recovered and the first append call carried it.
C13_Witness ==
    /\ describeResp.err = "nil" /\ Len(describeResp.out) = 2
    /\ describeResp.out[1].name # TargetStream
    /\ describeResp.out[2].name = TargetStream
    /\ describeResp.out[2].token # NoToken
    /\ describeResp.out[1].token # describeResp.out[2].token
    /\ calls # <<>> /\ calls[1].token = describeResp.out[2].token

\* C14 (group auto-creation), as claimed: when DescribeLogStreams failed because
\* the log group does not exist, then with cfg.CreateLogGroup the group and the
\* stream are created and, these calls succeeding, the writer is built without
\* token; without cfg.CreateLogGroup construction fails and no create call is made.
C14_GroupAutoCreation ==
    (ppc # "new" /\ describeResp.err = "GroupNotFound") =>
        IF createLogGroup
        THEN /\ ppc # "panicked"
             /\ prepErr = Nil =>
                   /\ prepCalls = <<"DescribeLogStreams", "CreateLogGroup", "CreateLogStream">>
                   /\ ppc # "failed" /\ initToken = NoToken
        ELSE /\ ppc = "failed" /\ prepErr # Nil
             /\ prepCalls = <<"DescribeLogStreams">>

(* ---------------------------- object claims ---------------------------- *)

\* C10 (overwrite conflict): when the probe of newS3Writer reported that the object
\* exists, then without cfg.AllowOverwrite newS3Writer returned the already-exists
\* error, started no goroutine and no Upload call was made; with
\* cfg.AllowOverwrite it returned a writer and started the upload worker.
C10_OverwriteConflict ==
    (s3pc # "new" /\ headResp.kind = "ok") =>
        IF ~allowOverwrite
        THEN /\ s3pc = "failed" /\ s3err = AlreadyExists
             /\ tasks = 0 /\ uploads = <<>> /\ s3bw.worker = "none"
        ELSE /\ s3pc \in {"open", "closed"} /\ s3err = Nil
             /\ tasks = 1 /\ s3bw.worker \in {"started", "running", "exited"}

\* C10 witness: the object exists, overwriting is not allowed, and newS3Writer has
\* returned its error.
C10_Witness ==
    /\ s3pc = "failed" /\ headResp.kind = "ok" /\ ~allowOverwrite
    /\ S3Key(urlPrefixPath, outputName) \in objects

\* The elements of a path: its maximal runs without a slash.
RECURSIVE Elements(_)
Elements(s) ==
    IF s = <<>> THEN <<>>
    ELSE IF s[1] = "/" THEN Elements(Tail(s))
    ELSE LET n == IF \E i \in 1..Len(s) : s[i] = "/"
                  THEN (CHOOSE i \in 1..Len(s) :
                            s[i] = "/" /\ \A j \in 1..(i - 1) : s[j] # "/") - 1
                  ELSE Len(s)
         IN <<SubSeq(s, 1, n)>> \o Elements(SubSeq(s, n + 1, Len(s)))

\* Path elements put together with one slash between two of them.
RECURSIVE Slashed(_)
Slashed(es) ==
    IF es = <<>> THEN <<>>
    ELSE IF Len(es) = 1 THEN es[1]
    ELSE es[1] \o <<"/">> \o Slashed(Tail(es))

\* s from its first symbol that is not a slash.
FromFirstNonSlash(s) ==
    IF \A i \in 1..Len(s) : s[i] = "/" THEN <<>>
    ELSE LET f == CHOOSE i \in 1..Len(s) : s[i] # "/" /\ \A j \in 1..(i - 1) : s[j] = "/"
         IN SubSeq(s, f, Len(s))

C16_StreamName ==
    ppc = "named" =>
        LET n == outputName
            stems == {k \in 0..Len(n) :
                        \/ k = Len(n) /\ \A i \in 1..Len(n) :
                                            n[i] = "." => \E j \in (i + 1)..Len(n) : n[j] = "/"
                        \/ k < Len(n) /\ n[k + 1] = "."
                                      /\ \A j \in (k + 2)..Len(n) : n[j] \notin {".", "/"}}
        IN /\ Cardinality(stems) = 1
           /\ \A k \in stems :
                 LET stem == FromFirstNonSlash(SubSeq(n, 1, k))
                 IN /\ Len(logStream) = Len(stem)
                    /\ \A i \in 1..Len(stem) :
                          logStream[i] = IF stem[i] = "/" THEN "-" ELSE stem[i]
           /\ \A i \in 1..Len(logStream) : logStream[i] # "/"
           /\ outputName = TestLogName => logStream = <<"test", "-", "hogehoge">>

\* C16 witness: the name of TestCloudwatchLogsWriter is resolved.
C16_Witness ==
    /\ ppc = "named" /\ outputName = TestLogName
    /\ logStream = <<"test", "-", "hogehoge">>

\* C17 (configuration restriction), as claimed: with the object destination
\* enabled Restrict succeeds only if url_prefix parses with the scheme "s3", and
\* otherwise returns the schema error and leaves the parsed prefix unset; with the
\* log destination enabled an empty flush_interval becomes 5s and a buffer_lines
\* of 0 becomes 50.
C17_RestrictLiteral ==
    cfg.pc = "restricted" =>
        LET c == cfg.loaded
            u == UrlParse(c.URLPrefix)
            good == u.err = "nil" /\ u.scheme = <<"s3">>
        IN /\ EnableS3(c) =>
                /\ cfg.err = NoErr => good
                /\ ~good => cfg.err = SchemaErr(u.scheme) /\ ~cfg.now.urlPrefix.set
           /\ EnableCloudwatchLogs(c) =>
                /\ c.FlushInterval = "" => cfg.now.flushInterval = DefaultFlushInterval
                /\ c.BufferLines = 0 => cfg.now.BufferLines = DefaultBufferLines

\* C17, amended: with the object destination enabled Restrict succeeds only if
\* url_prefix parses with the scheme "s3", and then the parsed prefix is set; else
\* the parsed prefix stays unset and, required_version being acceptable, the error
\* is the format error if url_prefix does not parse and the schema error if it
\* parses with another scheme. With the log destination enabled and no error
\* before it is looked at, an empty flush_interval becomes 5s, and if Restrict
\* succeeds a buffer_lines of 0 becomes 50.
C17_Restrict ==
    cfg.pc = "restricted" =>
        LET c == cfg.loaded
            u == UrlParse(c.URLPrefix)
            good == u.err = "nil" /\ u.scheme = <<"s3">>
            versionFine == c.RequiredVersion \in {"", ">=1"}
        IN /\ EnableS3(c) =>
                /\ cfg.err = NoErr => good /\ cfg.now.urlPrefix = [set |-> TRUE, url |-> u]
                /\ ~good => ~cfg.now.urlPrefix.set
                /\ (~good /\ versionFine) =>
                      cfg.err = IF u.err # "nil" THEN UrlFormatErr ELSE SchemaErr(u.scheme)
           /\ (EnableCloudwatchLogs(c) /\ cfg.err \in {NoErr, FlushIntervalErr}) =>
                /\ c.FlushInterval = "" => cfg.now.flushInterval = DefaultFlushInterval
                /\ (c.BufferLines = 0 /\ cfg.err = NoErr) =>
                      cfg.now.BufferLines = DefaultBufferLines

\* C17 witness: a url_prefix without scheme, as in TestConfigLoadInValid, was
\* refused with the schema error, before the enabled log destination was looked at.
C17_Witness ==
    /\ cfg.pc = "restricted"
    /\ cfg.loaded.S3 /\ cfg.loaded.URLPrefix = <<"/", "b">>
    /\ cfg.err = SchemaErr(<<>>)
    /\ ~cfg.now.urlPrefix.set
    /\ cfg.loaded.Cloudwatch /\ cfg.loaded.LogGroup = "g" /\ cfg.loaded.BufferLines = 0
    /\ cfg.now.BufferLines = 0

\* C18 (Close of the batching log writer terminates): no reachable state has the
\* flush task waiting for the line-splitting task (wg.Wait) while the line-splitting
\* task is blocked handing a line to the unbuffered queue (lines <- event). From
\* such a state neither task takes a step again and Close does not return.
C18_CloseTerminates ==
    ~(fpc = "wait" /\ spc = "send")

\* C19 (close protocol of the backgroundWriter): while Close waits for the worker
\* the pipe write end is closed and the context cancelled; once Close has returned
\* the worker and both its tasks have ended and every append call has returned,
\* and no call is made afterwards; Close returns the oldest error pending on the
\* error channel when the wait ends, or nil (pw.Close() has no error to return).
C19_CloseProtocol ==
    /\ [](/\ ppc \in {"close_wait", "closed"} => cwPwClosed /\ cancelled
          /\ ppc = "closed" =>
                /\ cwWorker = "exited" /\ fpc = "exit" /\ spc = "done"
                /\ \A k \in 1..Len(calls) : calls[k].done)
    /\ [][/\ ppc = "closed" => calls' = calls
          /\ (ppc # "closed" /\ ppc' = "closed") =>
                /\ ppc = "close_wait"
                /\ returned' = IF cwErrCh = <<>> THEN returned
                               ELSE Append(returned, cwErrCh[1])
                /\ cwErrCh' = IF cwErrCh = <<>> THEN cwErrCh ELSE Tail(cwErrCh)]_vars

\* C19 witness: Close has returned the error of the final append call, which was
\* made after the context was cancelled and had returned before Close did.
C19_Witness ==
    /\ ppc = "closed"
    /\ calls # <<>>
    /\ calls[Len(calls)].kind = "final" /\ calls[Len(calls)].done
    /\ ~calls[Len(calls)].ok
    /\ returned = <<PutErr(Len(calls))>>

\* C20 (forward before return), as claimed: a Read of the open AWSTeeReader that
\* returned n > 0 bytes and no error has called Write on every writer with those
\* bytes, which end what the writer was given; and at every Read boundary every
\* writer has been given exactly the bytes returned to the consumer so far.
C20_ForwardBeforeReturn ==
    /\ (lastRead.n > 0 /\ lastRead.err = Nil) =>
          /\ lastRead.fwd = NWriters
          /\ \A i \in Writers :
                /\ Len(given[i]) >= lastRead.n
                /\ SubSeq(given[i], Len(given[i]) - lastRead.n + 1, Len(given[i]))
                     = SubSeq(consumed, Len(consumed) - lastRead.n + 1, Len(consumed))
    /\ \A i \in Writers : given[i] = consumed

\* C21 (no concurrent flushes): at every moment at most one PutLogEvents call has
\* not returned, it is the last one made, and the flush task is inside it; so every
\* call, whether size-triggered, timer-triggered or final, is made after all the
\* calls before it have returned.
C21_NoConcurrentFlush ==
    \A k \in 1..Len(calls) :
        ~calls[k].done => k = Len(calls) /\ fpc = "put"

\* C21 witness: a timer-triggered call has returned and the final call, made
\* after it, is in flight.
C21_Witness ==
    /\ Len(calls) = 2
    /\ calls[1].kind = "timer" /\ calls[1].done
    /\ calls[2].kind = "final" /\ ~calls[2].done

\* C22 (timer flush): whenever the flush task waits in its select loop with a
\* non-empty batch and the writer is not closed, a PutLogEvents call is eventually
\* made without Close (by the timer, or by the size bound if more lines fill the
\* batch); a call carries the whole batch, which does not change while the call is
\* under way; and no timer-triggered call carries an empty batch.
C22_TimerFlush ==
    /\ [](\A k \in 1..Len(calls) : calls[k].kind = "timer" => calls[k].events # <<>>)
    /\ [](fpc = "put" => calls[Len(calls)].events = events)
    /\ (fpc = "select" /\ events # <<>> /\ ~cancelled) ~> (fpc = "put" \/ cancelled)

\* C22 witness: with a batch of one event, fewer than cfg.BufferLines, and the
\* writer open, the timer-triggered call carrying that event has been made.
C22_Witness ==
    /\ ppc = "idle" /\ ~cancelled
    /\ bufferLines = 2
    /\ Len(calls) = 1
    /\ calls[1].kind = "timer" /\ calls[1].events = <<<<"a">>>>
    /\ fpc = "put"

\* C23 (error reporting never blocks a worker): however many append calls fail,
\* the flush task is never held in its send on the error channel while the
\* line-splitting task is held in its send of the next line and Close is held in
\* its write of "\n", which nobody reads.
C23_ErrorSendNeverBlocks ==
    ~(/\ fpc = "send_err" /\ Len(cwErrCh) = ErrChCap
      /\ spc = "send"
      /\ ppc = "close_nl" /\ pipe # <<>>)

\* C24 (remote lookup failure fails construction): when DescribeLogStreams failed
\* and the failure is not a missing log group met with cfg.CreateLogGroup set,
\* newCloudWatchLogsWriter has returned an error after that one call, without a
\* create call, and has started no worker.
C24_LookupFailure ==
    (/\ ppc # "new"
     /\ describeResp.err # "nil"
     /\ ~(describeResp.err = "GroupNotFound" /\ createLogGroup)) =>
        /\ ppc = "failed" /\ prepErr # Nil
        /\ prepCalls = <<"DescribeLogStreams">>
        /\ cwWorker # "running"

\* C25 (construction of the backgroundWriter): without a worker function
\* newBackgroundWriter returns an error and starts no task; with one it starts
\* exactly one task, and no byte is written before that; if the poll finds an
\* error of the task the pipe is closed, and the error is returned, instead of a
\* writer, once the task has ended.
C25_Construction ==
    /\ (s3bw.worker = "nil" /\ s3pc # "new") =>
          s3pc = "failed" /\ s3err = WorkerIsNil /\ tasks = 0
    /\ (s3bw.worker # "nil" /\ s3pc # "new") => tasks = 1
    /\ s3pc = "new" => tasks = 0
    /\ s3written # <<>> => tasks = 1 /\ s3pc \in {"open", "closed"}
    /\ s3pc \in {"open", "closed"} => s3err = Nil
    /\ (s3pc \in {"closing", "failed"} /\ s3bw.worker # "nil") =>
          s3err = WorkerErr(1) /\ s3bw.pwClosed /\ s3written = <<>>
    /\ (s3pc = "failed" /\ s3bw.worker # "nil") => s3bw.worker = "exited"

\* C25 witness: the task reported two errors before the poll ended; construction
\* has returned the first after the task ended.
C25_Witness ==
    /\ s3pc = "failed" /\ tasks = 1
    /\ s3err = WorkerErr(1)
    /\ s3bw.worker = "exited" /\ s3bw.pwClosed
    /\ s3bw.errCh = <<>>

\* C26 (batch size bounds): for every cfg.BufferLines that Restrict accepts, every
\* PutLogEvents call carries at least one and at most cfg.BufferLines events, and
\* a batch that holds events never holds more than cfg.BufferLines of them.
C26_BatchBounds ==
    /\ \A k \in 1..Len(calls) :
          Len(calls[k].events) >= 1 /\ Len(calls[k].events) <= bufferLines
    /\ events # <<>> => Len(events) <= bufferLines

\* C27 (no task outlives a failed setup): once TeeReader has returned an error,
\* no worker of a backgroundWriter is running and no Upload call is open.
C27_NoTaskAfterFailedSetup ==
    tpc = "failed" =>
        /\ s3bw.worker \notin {"started", "running"}
        /\ cwWorker # "running"
        /\ \A k \in 1..Len(uploads) : uploads[k].done

====
